---- MODULE Spec2Model ----
(***************************************************************************)
(* Extraction pipeline and field-attribution store of fourth-note.        *)
(*                                                                         *)
(* The store is the three tables investments, field_values and            *)
(* investment_documents; the operations are EmailOrchestrator's           *)
(* _save_investment (with _find_matching_investment, _create_field_values *)
(* and _update_denormalized_fields) and the PUT handler update_investment.*)
(* The pipeline is process_email / _process_document, driven by the        *)
(* scheduler's run_email_processing; the bus is ProgressTracker.           *)
(***************************************************************************)
EXTENDS Integers, Sequences, FiniteSets, TLC

(***************************************************************************)
(* Bounds of the model.                                                    *)
(***************************************************************************)
MaxSaves == 1
MaxMatchSaves == 2
MaxEdits == 1
NumSessions == 2
MaxEmits == 2
MaxCalls == 3
MaxExactSaves == 3
MaxRuns == 2

(***************************************************************************)
(* Python values: None, str (a sequence of characters) and list.           *)
(***************************************************************************)
None == [kind |-> "none"]
Str(s) == [kind |-> "str", s |-> s]
List(l) == [kind |-> "list", l |-> l]
Bool(b) == [kind |-> "bool", b |-> b]

\* Python truthiness: `if value`, `not name`.
Truthy(v) ==
    CASE v.kind = "none" -> FALSE
      [] v.kind = "str" -> v.s # <<>>
      [] v.kind = "list" -> v.l # <<>>
      [] v.kind = "bool" -> v.b

\* str.lower() / SQL lower() on one character.
LowerChar(c) ==
    CASE c = "A" -> "a"
      [] c = "B" -> "b"
      [] c = "C" -> "c"
      [] c = "F" -> "f"
      [] c = "I" -> "i"
      [] OTHER -> c

Lower(s) == [i \in 1..Len(s) |-> LowerChar(s[i])]

\* Python `needle in hay` on strings.
Contains(hay, needle) ==
    \E i \in 0..(Len(hay) - Len(needle)) :
        SubSeq(hay, i + 1, i + Len(needle)) = needle

\* json.dumps of the leaders list [{"name": ..., "linkedin_url": ...}, ...].
RECURSIVE JsonItems(_, _)
JsonItems(l, k) ==
    IF k > Len(l) THEN <<>>
    ELSE (IF k > 1 THEN <<",">> ELSE <<>>)
         \o <<"{">> \o l[k].name \o <<":">>
         \o (IF l[k].linkedin_url = None THEN <<"null">> ELSE l[k].linkedin_url.s)
         \o <<"}">> \o JsonItems(l, k + 1)

JsonDumps(l) == <<"[">> \o JsonItems(l, 1) \o <<"]">>

(***************************************************************************)
(* Schema.                                                                 *)
(***************************************************************************)
\* FIELD_MAPPING values, in dict order: the keys of mapped_fields.
FieldOrder ==
    << "investment_name", "firm", "strategy_description", "leaders_json",
       "management_fees", "incentive_fees", "liquidity_lock",
       "target_net_returns" >>

Fields == {FieldOrder[k] : k \in 1..Len(FieldOrder)}

\* update_investment's tracked_fields.
tracked_fields ==
    { "investment_name", "firm", "strategy_description", "leaders_json",
      "management_fees", "incentive_fees", "liquidity_lock",
      "target_net_returns" }

Users == {1, 2}
DocIds == {1, 2, 3}

\* The user each document row belongs to (Document.user_id).
DocUser(d) == IF d = 3 THEN 2 ELSE 1

VARIABLES
    investments,            \* table investments, row id = index
    field_values,           \* table field_values, in insertion order
    investment_documents,   \* table investment_documents, in insertion order
    events,                 \* ProgressTracker.events
    returned,               \* arguments and result of the last call
    sessions,               \* open database sessions (concurrent writers)
    documents,              \* table documents: processing_status, error_message
    emails,                 \* table emails: status
    pipeline,               \* position of run_email_processing
    listeners,              \* ProgressTracker._listeners, as queue ids
    queues,                 \* contents of every asyncio.Queue ever created
    current_step,           \* ProgressTracker._current_step
    log,                    \* calls made on the tracker, in order
    consumers               \* what each queue's reader has taken from it

pipeline_vars == << documents, emails, pipeline >>

bus_vars == << listeners, queues, current_step, log, consumers >>

vars == << investments, field_values, investment_documents, events,
           returned, sessions, pipeline_vars, bus_vars >>

\* Investment(user_id=...) after flush: column defaults applied.
Investment(user_id) ==
    [ user_id |-> user_id,
      investment_name |-> None, firm |-> None,
      strategy_description |-> None, leaders_json |-> List(<<>>),
      management_fees |-> None, incentive_fees |-> None,
      liquidity_lock |-> None, target_net_returns |-> None,
      notes |-> None, is_archived |-> Bool(FALSE) ]

FieldValue(investment_id, field_name, field_value, source_type, source_id, confidence) ==
    [ investment_id |-> investment_id, field_name |-> field_name,
      field_value |-> field_value, source_type |-> source_type,
      source_id |-> source_id, is_current |-> TRUE,
      confidence |-> confidence ]

InvestmentDocument(investment_id, document_id) ==
    [ investment_id |-> investment_id, document_id |-> document_id,
      relationship_type |-> "source" ]

(***************************************************************************)
(* _find_matching_investment.  The result is the id of a row, 0 for None.  *)
(* Query.first() has no ORDER BY: any row of the result set may come       *)
(* first, so each operator yields the set of values the call can return.   *)
(***************************************************************************)
\* func.lower(column) == func.lower(value); NULL never compares equal.
SqlLowerEq(column, value) ==
    /\ column.kind = "str"
    /\ Lower(column.s) = Lower(value.s)

\* Query.first() over the rows that pass the filters.
First(rows) == IF rows = {} THEN {0} ELSE rows

\* Mutant: the name test compares for equality instead of containment.
NameSimilarExact(name, existing_name) ==
    \/ ~Truthy(name)
    \/ ~Truthy(existing_name)
    \/ Lower(existing_name.s) = Lower(name.s)

\* The name test of the firm-only match.
NameSimilar(name, existing_name) ==
    \/ ~Truthy(name)
    \/ ~Truthy(existing_name)
    \/ Contains(Lower(existing_name.s), Lower(name.s))
    \/ Contains(Lower(name.s), Lower(existing_name.s))

\* Mutant: the base query has no user_id filter.
OwnerQueryAll(invs, user_id) == DOMAIN invs

\* Mutant: the base query leaves out archived records, as the list does.
OwnerQueryActive(invs, user_id) ==
    {i \in DOMAIN invs : /\ invs[i].user_id = user_id
                         /\ invs[i].is_archived = Bool(FALSE)}

\* query = db.query(Investment).filter(Investment.user_id == user_id)
OwnerQuery(invs, user_id) == {i \in DOMAIN invs : invs[i].user_id = user_id}

\* Mutant: with no firm the owner's records are matched on the name alone.
FirmMatchNameOnly(invs, name, firm, user_id) ==
    IF Truthy(firm)
    THEN { IF existing # 0 /\ NameSimilar(name, invs[existing].investment_name)
           THEN existing ELSE 0 :
           existing \in First({i \in OwnerQuery(invs, user_id) :
                                 SqlLowerEq(invs[i].firm, firm)}) }
    ELSE First({i \in OwnerQuery(invs, user_id) :
                  SqlLowerEq(invs[i].investment_name, name)})

\* The firm-only step: the .first() of the firm query, kept when the name
\* test passes.
FirmMatch(invs, name, firm, user_id) ==
    IF Truthy(firm)
    THEN { IF existing # 0 /\ NameSimilar(name, invs[existing].investment_name)
           THEN existing ELSE 0 :
           existing \in First({i \in OwnerQuery(invs, user_id) :
                                 SqlLowerEq(invs[i].firm, firm)}) }
    ELSE {0}

\* The exact query on name and firm: its .first().
ExactMatch(invs, name, firm, user_id) ==
    First({i \in OwnerQuery(invs, user_id) :
             /\ SqlLowerEq(invs[i].investment_name, name)
             /\ SqlLowerEq(invs[i].firm, firm)})

\* Mutant: the firm-only match is tried before the exact match.
FindMatchingInvestmentFirmFirst(invs, name, firm, user_id) ==
    IF ~Truthy(name) /\ ~Truthy(firm) THEN {0}
    ELSE IF Truthy(name) /\ Truthy(firm)
         THEN UNION { IF existing # 0 THEN {existing}
                      ELSE ExactMatch(invs, name, firm, user_id) :
                      existing \in FirmMatch(invs, name, firm, user_id) }
         ELSE FirmMatch(invs, name, firm, user_id)

FindMatchingInvestment(invs, name, firm, user_id) ==
    IF ~Truthy(name) /\ ~Truthy(firm) THEN {0}
    ELSE IF Truthy(name) /\ Truthy(firm)
         THEN UNION { IF existing # 0 THEN {existing}
                      ELSE FirmMatch(invs, name, firm, user_id) :
                      existing \in ExactMatch(invs, name, firm, user_id) }
         ELSE FirmMatch(invs, name, firm, user_id)

(***************************************************************************)
(* Writes of the attribution store.                                        *)
(***************************************************************************)
\* Mutant: the flip filters on is_current == False and so updates nothing.
MarkNotCurrentWrongFlag(fvs, investment_id, field_name) ==
    [ i \in DOMAIN fvs |->
        IF /\ fvs[i].investment_id = investment_id
           /\ fvs[i].field_name = field_name
           /\ ~fvs[i].is_current
        THEN [fvs[i] EXCEPT !.is_current = FALSE]
        ELSE fvs[i] ]

\* Mutant: the superseded versions are deleted instead of flipped.
MarkNotCurrentDelete(fvs, investment_id, field_name) ==
    SelectSeq(fvs, LAMBDA fv : ~(/\ fv.investment_id = investment_id
                                 /\ fv.field_name = field_name
                                 /\ fv.is_current))

\* db.query(FieldValue).filter(investment_id, field_name, is_current == True)
\*   .update({"is_current": False})
MarkNotCurrent(fvs, investment_id, field_name) ==
    [ i \in DOMAIN fvs |->
        IF /\ fvs[i].investment_id = investment_id
           /\ fvs[i].field_name = field_name
           /\ fvs[i].is_current
        THEN [fvs[i] EXCEPT !.is_current = FALSE]
        ELSE fvs[i] ]

\* stored_value of _create_field_values.
StoredValue(field_value) ==
    IF field_value.kind = "list"
    THEN Str(JsonDumps(field_value.l))
    ELSE Str(field_value.s)

\* The loop of _create_field_values from the k-th key of mapped_fields on.
RECURSIVE CreateFieldValuesFrom(_, _, _, _, _)
CreateFieldValuesFrom(fvs, investment_id, mapped_fields, document, k) ==
    IF k > Len(FieldOrder) THEN fvs
    ELSE LET field_name == FieldOrder[k]
             field_value == mapped_fields[field_name]
         IN  IF field_value = None
             THEN CreateFieldValuesFrom(fvs, investment_id, mapped_fields,
                                        document, k + 1)
             ELSE CreateFieldValuesFrom(
                      Append(MarkNotCurrent(fvs, investment_id, field_name),
                             FieldValue(investment_id, field_name,
                                        StoredValue(field_value),
                                        "document", document, "medium")),
                      investment_id, mapped_fields, document, k + 1)

\* Mutant: source_id is the investment's id instead of the document's.
CreateFieldValuesSourceInvestment(fvs, investment_id, mapped_fields, document) ==
    CreateFieldValuesFrom(fvs, investment_id, mapped_fields, investment_id, 1)

\* _create_field_values: the loop over mapped_fields.items().
CreateFieldValues(fvs, investment_id, mapped_fields, document) ==
    CreateFieldValuesFrom(fvs, investment_id, mapped_fields, document, 1)

\* Mutant: setattr for every extracted key, None included.
UpdateDenormalizedFieldsAll(investment, mapped_fields) ==
    [ c \in DOMAIN investment |->
        IF c \in Fields THEN mapped_fields[c] ELSE investment[c] ]

\* _update_denormalized_fields: setattr for every value that is not None.
UpdateDenormalizedFields(investment, mapped_fields) ==
    [ c \in DOMAIN investment |->
        IF c \in Fields /\ mapped_fields[c] # None
        THEN mapped_fields[c]
        ELSE investment[c] ]

\* _process_document, step 2c: leaders are stored with null LinkedIn URLs.
StoreLeaders(mapped_fields, leaders_raw) ==
    [ mapped_fields EXCEPT !["leaders_json"] =
        IF leaders_raw # <<>>
        THEN List([k \in 1..Len(leaders_raw) |->
                     [name |-> leaders_raw[k].name, linkedin_url |-> None]])
        ELSE List(<<>>) ]

\* Number of FieldValue rows a save of mapped_fields inserts.
NumWritten(mapped_fields) ==
    Cardinality({f \in Fields : mapped_fields[f] # None})

\* The insert of the link without the query before it.
LinkDocumentAlways(links, investment_id, document) ==
    Append(links, InvestmentDocument(investment_id, document))

\* The link query and conditional insert of _save_investment.
LinkDocument(links, investment_id, document) ==
    IF \E k \in DOMAIN links :
          /\ links[k].investment_id = investment_id
          /\ links[k].document_id = document
    THEN links
    ELSE Append(links, InvestmentDocument(investment_id, document))

\* The progress event _save_investment emits after its commit.
SaveEvent(document, mapped_fields, is_new) ==
    [ step |-> "extraction", filename |-> document,
      investment_name |-> mapped_fields["investment_name"],
      firm |-> mapped_fields["firm"], is_new |-> is_new ]

(***************************************************************************)
(* _save_investment, run in one session with no concurrent writer, called  *)
(* from _process_document with the extraction result `data`.               *)
(***************************************************************************)
SaveInvestment(document, data) ==
    LET mapped_fields == StoreLeaders(data.mapped_fields, data.leaders_raw)
        user_id == DocUser(document)
    IN  /\ \E found \in FindMatchingInvestment(investments,
                            mapped_fields["investment_name"],
                            mapped_fields["firm"], user_id) :
             LET is_new == found = 0
                 created == IF is_new
                            THEN Append(investments, Investment(user_id))
                            ELSE investments
                 id == IF is_new THEN Len(created) ELSE found
             IN  /\ investments' =
                        [created EXCEPT ![id] =
                            UpdateDenormalizedFields(@, mapped_fields)]
                 /\ investment_documents' =
                        LinkDocument(investment_documents, id, document)
                 /\ field_values' =
                        CreateFieldValues(field_values, id, mapped_fields,
                                          document)
                 /\ events' = Append(events,
                                     SaveEvent(document, mapped_fields, is_new))
                 /\ returned' = [ op |-> "save", investment |-> id,
                                  is_new |-> is_new ]
        /\ UNCHANGED sessions

(***************************************************************************)
(* update_investment (PUT /investments/{id}).  `update` is the dict        *)
(* update.model_dump(exclude_unset=True) as a sequence of <<field, value>>.*)
(***************************************************************************)
\* stored_value of update_investment.
ManualStoredValue(field, value) ==
    IF field = "leaders_json" /\ value.kind = "list"
    THEN Str(JsonDumps(value.l))
    ELSE IF Truthy(value) THEN Str(value.s) ELSE None

\* The loop over update_data without the comparison with the old value.
RECURSIVE ApplyUpdateAlways(_, _, _, _, _)
ApplyUpdateAlways(investment, fvs, investment_id, update, k) ==
    IF k > Len(update) THEN [investment |-> investment, fvs |-> fvs]
    ELSE LET field == update[k][1]
             value == update[k][2]
             written ==
                 IF field \in tracked_fields
                 THEN Append(MarkNotCurrent(fvs, investment_id, field),
                             FieldValue(investment_id, field,
                                        ManualStoredValue(field, value),
                                        "manual", 0, "verified"))
                 ELSE fvs
         IN  ApplyUpdateAlways([investment EXCEPT ![field] = value], written,
                               investment_id, update, k + 1)

\* The loop over update_data from its k-th item on; the state is the pair
\* of the investment row and the field_values table.
RECURSIVE ApplyUpdateFrom(_, _, _, _, _)
ApplyUpdateFrom(investment, fvs, investment_id, update, k) ==
    IF k > Len(update) THEN [investment |-> investment, fvs |-> fvs]
    ELSE LET field == update[k][1]
             value == update[k][2]
             old_value == investment[field]
             written ==
                 IF field \in tracked_fields /\ value # old_value
                 THEN Append(MarkNotCurrent(fvs, investment_id, field),
                             FieldValue(investment_id, field,
                                        ManualStoredValue(field, value),
                                        "manual", 0, "verified"))
                 ELSE fvs
         IN  ApplyUpdateFrom([investment EXCEPT ![field] = value], written,
                             investment_id, update, k + 1)

\* The lookup with the ownership filter left out.
OwnedInvestmentAnyUser(investment_id, current_user) ==
    investment_id \in DOMAIN investments

\* The query of update_investment: the row with this id that belongs to
\* the current user, if there is one.
OwnedInvestment(investment_id, current_user) ==
    /\ investment_id \in DOMAIN investments
    /\ investments[investment_id].user_id = current_user

UpdateInvestment(investment_id, update, current_user) ==
    IF OwnedInvestment(investment_id, current_user)
    THEN LET done == ApplyUpdateFrom(investments[investment_id], field_values,
                                     investment_id, update, 1)
         IN  /\ investments' = [investments EXCEPT ![investment_id] =
                                    done.investment]
             /\ field_values' = done.fvs
             /\ returned' = [ op |-> "update", investment |-> investment_id,
                              status |-> 200 ]
             /\ UNCHANGED << investment_documents, events, sessions >>
    ELSE /\ returned' = [ op |-> "update", investment |-> 0,
                          status |-> 404 ]
         /\ UNCHANGED << investments, field_values, investment_documents,
                         events, sessions >>

(***************************************************************************)
(* Inputs.                                                                 *)
(***************************************************************************)
AcmeFund == Str(<<"A", "F">>)
acme_fund_i == Str(<<"a", "f", "i">>)
Beta == Str(<<"B">>)
AcmeCapital == Str(<<"A", "C">>)
acme_capital == Str(<<"a", "c">>)
Empty == Str(<<>>)
Fees2 == Str(<<"2">>)
Fees3 == Str(<<"3">>)
Jane == [name |-> <<"J">>]

\* mapped_fields as _map_fields returns it: every key of FIELD_MAPPING.
MappedFields(name, firm, fees) ==
    [ f \in Fields |->
        CASE f = "investment_name" -> name
          [] f = "firm" -> firm
          [] f = "management_fees" -> fees
          [] OTHER -> None ]

ExtractionData(name, firm, fees, leaders_raw) ==
    [ mapped_fields |-> MappedFields(name, firm, fees),
      leaders_raw |-> leaders_raw ]

\* Extraction results of the store specification.
StoreInputs ==
    { ExtractionData(AcmeFund, AcmeCapital, None, <<>>),
      ExtractionData(AcmeFund, AcmeCapital, Empty, <<>>),
      ExtractionData(AcmeFund, AcmeCapital, Fees2, <<Jane>>) }

\* Names and firms the matcher is called with.
MatchNames == {None, AcmeFund, acme_fund_i, Beta}
MatchFirms == {None, AcmeCapital, acme_capital}

\* Extraction results of the matching specification.
MatchInputs ==
    { ExtractionData(nf[1], nf[2], None, <<>>) :
        nf \in { <<AcmeFund, AcmeCapital>>, <<acme_fund_i, acme_capital>>,
                 <<Beta, AcmeCapital>>, <<None, AcmeCapital>>,
                 <<AcmeFund, None>> } }

\* Bodies of PUT /investments/{id}.
UpdateInputs ==
    { << <<"investment_name", v>> >> : v \in {Empty, Beta} }
    \cup { << <<"management_fees", v>> >> : v \in {None, Empty, Fees3} }
    \cup { << <<"leaders_json", v>> >> :
             v \in {List(<<>>),
                    List(<< [name |-> <<"J">>, linkedin_url |-> None] >>)} }
    \cup { << <<"is_archived", Bool(TRUE)>> >>,
           << <<"firm", acme_capital>>, <<"management_fees", Fees3>> >> }

Idle == [pc |-> "idle"]

(***************************************************************************)
(* ProgressTracker.  A queue is named by the order of its creation; the    *)
(* tracker's fields are gathered in one record for its methods.            *)
(***************************************************************************)
\* asyncio.Queue(maxsize=100)
maxsize == 100

Tracker ==
    [ events |-> events, listeners |-> listeners,
      current_step |-> current_step, queues |-> queues ]

\* put_nowait that makes room by discarding the oldest event.
put_nowait_drop_oldest(queue, event) ==
    IF Len(queue) >= maxsize THEN Append(Tail(queue), event)
    ELSE Append(queue, event)

\* queue.put_nowait(event) inside emit's try/except QueueFull: pass.
put_nowait(queue, event) ==
    IF Len(queue) >= maxsize THEN queue ELSE Append(queue, event)

\* The loop of emit over self._listeners, from position k on.
RECURSIVE NotifyFrom(_, _, _, _)
NotifyFrom(qs, ls, event, k) ==
    IF k > Len(ls) THEN qs
    ELSE NotifyFrom([qs EXCEPT ![ls[k]] = put_nowait(@, event)], ls, event,
                    k + 1)

emit(t, event) ==
    [ t EXCEPT !.events = Append(@, event),
               !.current_step = event.step,
               !.queues = NotifyFrom(@, t.listeners, event, 1) ]

\* subscribe that hands the history to the new queue.
subscribe_replay(t) ==
    [ t EXCEPT !.queues = Append(@, t.events),
               !.listeners = Append(@, Len(t.queues) + 1) ]

subscribe(t) ==
    [ t EXCEPT !.queues = Append(@, <<>>),
               !.listeners = Append(@, Len(t.queues) + 1) ]

\* Mutant: the queue stays in the list.
unsubscribe_keeps(t, queue) == t

\* list.remove: the first occurrence is removed.
unsubscribe(t, queue) ==
    IF \E k \in DOMAIN t.listeners : t.listeners[k] = queue
    THEN LET k == CHOOSE i \in DOMAIN t.listeners :
                     /\ t.listeners[i] = queue
                     /\ \A j \in 1..(i - 1) : t.listeners[j] # queue
         IN  [ t EXCEPT !.listeners =
                   SubSeq(@, 1, k - 1) \o SubSeq(@, k + 1, Len(@)) ]
    ELSE t

\* clear that also forgets the listeners.
clear_listeners(t) ==
    [ t EXCEPT !.events = <<>>, !.current_step = "", !.listeners = <<>> ]

clear(t) == [ t EXCEPT !.events = <<>>, !.current_step = "" ]

\* emit called once for each of the events `new`, in order.
RECURSIVE EmitAll(_, _, _)
EmitAll(t, new, k) ==
    IF k > Len(new) THEN t ELSE EmitAll(emit(t, new[k]), new, k + 1)

\* The reader of a queue: what it has taken, and whether the queue was
\* ever found full.
Consumer == [ received |-> <<>>, was_full |-> FALSE ]

MarkFull(cs, qs) ==
    [ q \in DOMAIN cs |->
        [ cs[q] EXCEPT !.was_full = @ \/ Len(qs[q]) >= maxsize ] ]

EmitCall(event) == [ call |-> "emit", event |-> event ]

\* The emits of an operation of the store or the pipeline: the events it
\* appended reach the listeners through emit.
Broadcast ==
    LET new == SubSeq(events', Len(events) + 1, Len(events'))
        t == EmitAll(Tracker, new, 1)
    IN  /\ current_step' = t.current_step
        /\ queues' = t.queues
        /\ consumers' = MarkFull(consumers, t.queues)
        /\ log' = log \o [ k \in DOMAIN new |-> EmitCall(new[k]) ]
        /\ UNCHANGED listeners

(***************************************************************************)
(* Emails and their documents, as the fetch left them.                     *)
(***************************************************************************)
EmailIds == {1, 2}

\* email.documents
EmailDocuments(email) == IF email = 1 THEN <<1, 2>> ELSE <<3>>

\* Document(processing_status=DocumentStatus.PENDING)
Document == [ processing_status |-> "pending", error_message |-> None ]

\* Email(status=EmailStatus.PROCESSING.value)
Email == [ status |-> "processing" ]

\* run_email_processing before its first email.
Scheduled ==
    [ pc |-> "fetch", email |-> 0, doc |-> 0, investment |-> 0,
      investments |-> <<>>,
      triage |-> [ e \in EmailIds |-> [call |-> "none"] ],
      result |-> [ e \in EmailIds |->
                     [ done |-> FALSE, investments |-> <<>> ] ],
      calls |-> [ d \in DocIds |-> <<>> ] ]

InitStore ==
    /\ investments = <<>>
    /\ field_values = <<>>
    /\ investment_documents = <<>>
    /\ returned = [op |-> "none"]
    /\ sessions = [s \in 1..NumSessions |-> Idle]
    /\ documents = [d \in DocIds |-> Document]
    /\ emails = [e \in EmailIds |-> Email]
    /\ pipeline = Scheduled

Init ==
    /\ InitStore
    /\ events = <<>>
    /\ listeners = <<>>
    /\ queues = <<>>
    /\ current_step = ""
    /\ log = <<>>
    /\ consumers = <<>>

(***************************************************************************)
(* Store specification: extraction saves and manual edits, one at a time.  *)
(***************************************************************************)
\* Number of versions written by manual edits.
NumManual(fvs) ==
    Cardinality({i \in DOMAIN fvs : fvs[i].source_type = "manual"})

Save ==
    \E document \in DocIds, data \in StoreInputs :
        /\ Len(events) < MaxSaves
        /\ SaveInvestment(document, data)
        /\ UNCHANGED pipeline_vars
        /\ Broadcast

Edit ==
    \E investment_id \in 1..(MaxSaves + 1), update \in UpdateInputs,
       current_user \in Users :
        /\ UpdateInvestment(investment_id, update, current_user)
        /\ NumManual(field_values') <= MaxEdits
        /\ UNCHANGED pipeline_vars
        /\ Broadcast

Next == Save \/ Edit

Spec == Init /\ [][Next]_vars

(***************************************************************************)
(* Properties of the store specification.                                  *)
(***************************************************************************)
\* The versions of one (investment, field_name) key, as row indices.
Versions(fvs, investment_id, field_name) ==
    {i \in DOMAIN fvs : /\ fvs[i].investment_id = investment_id
                        /\ fvs[i].field_name = field_name}

CurrentVersions(fvs, investment_id, field_name) ==
    {i \in Versions(fvs, investment_id, field_name) : fvs[i].is_current}

IsEmptyStored(field_value) ==
    \/ field_value = None
    \/ field_value = Str(<<>>)
    \/ field_value = Str(JsonDumps(<<>>))

\* C3: writing a null or empty value (None, '' or []) through a save or a
\* manual edit creates no FieldValue; as every row holds the value its write
\* stored, no row of the store holds an empty value.
C3_EmptyWriteIsNoOp ==
    \A i \in DOMAIN field_values :
        ~IsEmptyStored(field_values[i].field_value)

Serialized(value) ==
    IF value.kind = "list" THEN Str(JsonDumps(value.l)) ELSE value

\* C5: after every committed save or manual edit, for every tracked field
\* with a current FieldValue the Investment column holds the value of that
\* current version, modulo JSON serialization.
C5_ViewIsProjection ==
    \A investment_id \in DOMAIN investments, field_name \in tracked_fields :
        \A i \in CurrentVersions(field_values, investment_id, field_name) :
            field_values[i].field_value
                = Serialized(investments[investment_id][field_name])

(***************************************************************************)
(* Matching specification: saves that build up the owner's records, and    *)
(* calls of _find_matching_investment on the records they left.            *)
(***************************************************************************)
SaveMatch ==
    \E document \in DocIds, data \in MatchInputs :
        /\ Len(events) < MaxMatchSaves
        /\ SaveInvestment(document, data)
        /\ UNCHANGED pipeline_vars
        /\ Broadcast

\* Two calls of _find_matching_investment with the same arguments on the
\* same rows.
Probe ==
    \E name \in MatchNames, firm \in MatchFirms, user_id \in Users :
        \E investment \in FindMatchingInvestment(investments, name, firm,
                                                 user_id),
           again \in FindMatchingInvestment(investments, name, firm,
                                            user_id) :
            /\ returned' = [ op |-> "find", name |-> name, firm |-> firm,
                             user_id |-> user_id, investment |-> investment,
                             again |-> again ]
            /\ UNCHANGED << investments, field_values, investment_documents,
                            events, sessions, pipeline_vars,
                            bus_vars >>

NextMatch == SaveMatch \/ Probe

SpecMatch == Init /\ [][NextMatch]_vars

\* C6: matching never crosses tenants: a call returns no match or a record
\* of the given owner, and every link joins a document and a record of the
\* same user.
C6_MatchWithinTenant ==
    /\ returned.op = "find" =>
          \A r \in {returned.investment, returned.again} :
              r = 0 \/ investments[r].user_id = returned.user_id
    /\ \A k \in DOMAIN investment_documents :
          investments[investment_documents[k].investment_id].user_id
              = DocUser(investment_documents[k].document_id)

\* A call matched a record of its owner while another user holds a record
\* of the same firm.
C6_Witness ==
    /\ returned.op = "find"
    /\ returned.investment # 0
    /\ \E j \in DOMAIN investments :
          /\ investments[j].user_id # returned.user_id
          /\ SqlLowerEq(investments[j].firm, returned.firm)

\* The owner's records with the given firm that pass the name rule.
FirmCandidates(invs, name, firm, user_id) ==
    {i \in DOMAIN invs :
        /\ invs[i].user_id = user_id
        /\ SqlLowerEq(invs[i].firm, firm)
        /\ NameSimilar(name, invs[i].investment_name)}

ExactMatches(invs, name, firm, user_id) ==
    {i \in DOMAIN invs :
        /\ invs[i].user_id = user_id
        /\ Truthy(name)
        /\ SqlLowerEq(invs[i].investment_name, name)
        /\ SqlLowerEq(invs[i].firm, firm)}

\* C7: when a firm is supplied and no exact name+firm match exists, the call
\* returns a match whenever at least one record of the owner has the firm
\* and satisfies the name rule.
C7_FirmMatchConsidersAll ==
    ( /\ returned.op = "find"
      /\ Truthy(returned.firm)
      /\ ExactMatches(investments, returned.name, returned.firm,
                      returned.user_id) = {}
      /\ FirmCandidates(investments, returned.name, returned.firm,
                        returned.user_id) # {} )
    => returned.investment # 0

\* C8: matching is deterministic: two calls with the same arguments on the
\* same records return the same record or both return no match.
C8_MatchDeterministic ==
    returned.op = "find" => returned.investment = returned.again

\* The substring scenario: exactly two saves, of two documents of one user,
\* with the same firm and names of which one contains the other.
SubstringScenario ==
    /\ Len(events) = 2
    /\ events[1].filename # events[2].filename
    /\ DocUser(events[1].filename) = DocUser(events[2].filename)
    /\ Truthy(events[1].firm) /\ Truthy(events[2].firm)
    /\ Lower(events[1].firm.s) = Lower(events[2].firm.s)
    /\ Truthy(events[1].investment_name)
    /\ Truthy(events[2].investment_name)
    /\ \/ Contains(Lower(events[1].investment_name.s),
                   Lower(events[2].investment_name.s))
       \/ Contains(Lower(events[2].investment_name.s),
                   Lower(events[1].investment_name.s))

\* Rows of one key written from one document.
VersionsFrom(fvs, investment_id, field_name, document) ==
    {i \in Versions(fvs, investment_id, field_name) :
        /\ fvs[i].source_type = "document"
        /\ fvs[i].source_id = document}

\* C9: documents A then B of one owner with the same firm and substring
\* names resolve to the same Investment: one Investment, two links (one per
\* document), and for every field present in both extractions two
\* FieldValues (one per document) of which only B's is current.
C9_SubstringScenarioMerges ==
    SubstringScenario =>
        LET A == events[1].filename
            B == events[2].filename
        IN  /\ Len(investments) = 1
            /\ Len(investment_documents) = 2
            /\ {investment_documents[k].document_id : k \in 1..2} = {A, B}
            /\ \A k \in 1..2 : investment_documents[k].investment_id = 1
            /\ \A f \in Fields :
                 LET a == VersionsFrom(field_values, 1, f, A)
                     b == VersionsFrom(field_values, 1, f, B)
                 IN  /\ f \in {"investment_name", "firm", "leaders_json"}
                          => a # {} /\ b # {}
                     /\ (a # {} /\ b # {}) =>
                          /\ Cardinality(a) = 1 /\ Cardinality(b) = 1
                          /\ Versions(field_values, 1, f) = a \cup b
                          /\ CurrentVersions(field_values, 1, f) = b

\* The scenario with names that differ: B's save updated A's record.
C9_Witness ==
    /\ SubstringScenario
    /\ Lower(events[1].investment_name.s) # Lower(events[2].investment_name.s)
    /\ ~events[2].is_new
    /\ returned.op = "save"

\* C20: linking is idempotent: there is at most one InvestmentDocument row
\* for each (investment, document) pair, and a save of a document that is
\* already linked to the investment it resolves to adds no link.
C20_LinkIdempotent ==
    /\ [](\A k, l \in DOMAIN investment_documents :
            ( /\ investment_documents[k].investment_id
                    = investment_documents[l].investment_id
              /\ investment_documents[k].document_id
                    = investment_documents[l].document_id ) => k = l)
    /\ [][ ( /\ Len(events') = Len(events) + 1
             /\ returned'.op = "save"
             /\ \E k \in DOMAIN investment_documents :
                   /\ investment_documents[k].investment_id
                         = returned'.investment
                   /\ investment_documents[k].document_id
                         = events'[Len(events')].filename )
           => investment_documents' = investment_documents ]_vars

C20_Witness ==
    /\ Len(events) = 2
    /\ events[1].filename = events[2].filename
    /\ returned.op = "save"
    /\ ~returned.is_new
    /\ Len(investments) = 1
    /\ Len(investment_documents) = 1
    /\ investment_documents[1].document_id = events[2].filename
    /\ investment_documents[1].investment_id = returned.investment

(***************************************************************************)
(* Concurrent writers.  Each session is one database transaction at READ   *)
(* COMMITTED: a statement reads the rows committed when it starts, the     *)
(* inserts of a transaction are invisible to the others until its commit,  *)
(* and an UPDATE locks the rows it changes until the commit.  investments, *)
(* field_values and investment_documents hold the committed rows; a        *)
(* session holds its uncommitted work.  A row a session inserts for an     *)
(* Investment it has created carries investment_id 0 until the commit.     *)
(***************************************************************************)
Sessions == 1..NumSessions

InFlight(s) == sessions[s].pc \notin {"idle", "done", "failed"}

\* Rows locked by the uncommitted flips of the sessions other than s.
LockedByOthers(s) ==
    UNION {sessions[t].flips : t \in {u \in Sessions : u # s /\ InFlight(u)}}

\* A session that has resolved its target and is about to write `todo`.
Writing(kind, document, user_id, name, firm, investment, loaded, columns, need_link, todo) ==
    [ pc |-> IF todo = <<>> THEN "commit" ELSE "fields",
      kind |-> kind, document |-> document, user_id |-> user_id,
      name |-> name, firm |-> firm, mapped_fields |-> <<>>,
      investment |-> investment, is_new |-> investment = 0,
      loaded |-> loaded, columns |-> columns, need_link |-> need_link,
      todo |-> todo, targets |-> {}, flips |-> {}, new_fvs |-> <<>> ]

\* A save between the statements of _find_matching_investment and the link
\* query.
Finding(pc, document, mapped_fields, investment, loaded) ==
    [ pc |-> pc, kind |-> "save", document |-> document,
      user_id |-> DocUser(document),
      name |-> mapped_fields["investment_name"],
      firm |-> mapped_fields["firm"], mapped_fields |-> mapped_fields,
      investment |-> investment, is_new |-> investment = 0,
      loaded |-> loaded, columns |-> <<>>, need_link |-> FALSE,
      todo |-> <<>>, targets |-> {}, flips |-> {}, new_fvs |-> <<>> ]

\* _save_investment starts: the first statement of
\* _find_matching_investment (the exact query when name and firm are given).
BeginSave(s, document, data) ==
    LET mapped_fields == StoreLeaders(data.mapped_fields, data.leaders_raw)
        name == mapped_fields["investment_name"]
        firm == mapped_fields["firm"]
        user_id == DocUser(document)
    IN  /\ sessions[s].pc = "idle"
        /\ IF ~Truthy(name) /\ ~Truthy(firm)
           THEN sessions' = [sessions EXCEPT ![s] =
                    Finding("link", document, mapped_fields, 0,
                            Investment(user_id))]
           ELSE IF Truthy(name) /\ Truthy(firm)
           THEN \E existing \in ExactMatch(investments, name, firm, user_id) :
                    sessions' = [sessions EXCEPT ![s] =
                        IF existing # 0
                        THEN Finding("link", document, mapped_fields,
                                     existing, investments[existing])
                        ELSE Finding("firm", document, mapped_fields, 0,
                                     Investment(user_id))]
           ELSE sessions' = [sessions EXCEPT ![s] =
                    Finding("firm", document, mapped_fields, 0,
                            Investment(user_id))]
        /\ UNCHANGED << investments, field_values, investment_documents,
                        events, returned >>

\* The firm query of _find_matching_investment; on no match the Investment
\* is created and flushed.
FindFirm(s) ==
    /\ sessions[s].pc = "firm"
    /\ \E existing \in FirmMatch(investments, sessions[s].name,
                                 sessions[s].firm, sessions[s].user_id) :
          sessions' = [sessions EXCEPT ![s] =
              Finding("link", sessions[s].document, sessions[s].mapped_fields,
                      existing,
                      IF existing = 0 THEN Investment(sessions[s].user_id)
                      ELSE investments[existing])]
    /\ UNCHANGED << investments, field_values, investment_documents, events,
                    returned >>

\* The link query of _save_investment, and the rows and column values the
\* rest of the call will write.
LinkQuery(s) ==
    LET ses == sessions[s]
        linked == \E k \in DOMAIN investment_documents :
                     /\ investment_documents[k].investment_id = ses.investment
                     /\ investment_documents[k].document_id = ses.document
    IN  /\ ses.pc = "link"
        /\ sessions' = [sessions EXCEPT ![s] =
              Writing("save", ses.document, ses.user_id, ses.name, ses.firm,
                      ses.investment, ses.loaded,
                      UpdateDenormalizedFields(ses.loaded, ses.mapped_fields),
                      ~linked,
                      CreateFieldValues(<<>>, ses.investment,
                                        ses.mapped_fields, ses.document))]
        /\ UNCHANGED << investments, field_values, investment_documents,
                        events, returned >>

\* update_investment starts: the Investment is loaded, or 404.
BeginEdit(s, investment_id, update, current_user) ==
    /\ sessions[s].pc = "idle"
    /\ IF /\ investment_id \in DOMAIN investments
          /\ investments[investment_id].user_id = current_user
       THEN LET loaded == investments[investment_id]
                done == ApplyUpdateFrom(loaded, <<>>, investment_id, update, 1)
            IN  sessions' = [sessions EXCEPT ![s] =
                    Writing("edit", 0, current_user, None, None,
                            investment_id, loaded, done.investment, FALSE,
                            done.fvs)]
       ELSE sessions' = [sessions EXCEPT ![s] =
                [pc |-> "done", kind |-> "edit", status |-> 404,
                 investment |-> 0, wrote |-> {}]]
    /\ UNCHANGED << investments, field_values, investment_documents, events,
                    returned >>

\* The session after the flip of its next key touched `flipped`.
AfterFlip(ses, flipped) ==
    [ ses EXCEPT !.pc = IF Len(ses.todo) = 1 THEN "commit" ELSE "fields",
                 !.flips = @ \cup flipped,
                 !.targets = {},
                 !.new_fvs = Append(@, Head(ses.todo)),
                 !.todo = Tail(@) ]

\* The UPDATE ... SET is_current = false of the next key starts: it selects
\* the committed current rows of the key, and waits if another transaction
\* has locked one of them.
FlipStart(s) ==
    LET ses == sessions[s]
        fv == Head(ses.todo)
        targets == IF ses.investment = 0 THEN {}
                   ELSE CurrentVersions(field_values, ses.investment,
                                        fv.field_name)
    IN  /\ ses.pc = "fields"
        /\ sessions' = [sessions EXCEPT ![s] =
              IF targets \cap LockedByOthers(s) = {}
              THEN AfterFlip(ses, targets)
              ELSE [ses EXCEPT !.pc = "blocked", !.targets = targets]]
        /\ UNCHANGED << investments, field_values, investment_documents,
                        events, returned >>

\* The locks are released: the waiting UPDATE re-checks the rows it selected
\* and changes those that are still current; it does not see rows inserted
\* after it started.
FlipResume(s) ==
    LET ses == sessions[s]
    IN  /\ ses.pc = "blocked"
        /\ ses.targets \cap LockedByOthers(s) = {}
        /\ sessions' = [sessions EXCEPT ![s] =
              AfterFlip(ses, {i \in ses.targets : field_values[i].is_current})]
        /\ UNCHANGED << investments, field_values, investment_documents,
                        events, returned >>

\* The columns a flush writes: those whose value differs from the loaded one.
FlushColumns(row, loaded, columns) ==
    [ c \in DOMAIN row |-> IF columns[c] # loaded[c] THEN columns[c]
                           ELSE row[c] ]

\* db.commit(): the pending rows are flushed and the transaction commits.
\* A link that another transaction has committed meanwhile violates
\* uq_investment_documents and the transaction is rolled back.
Commit(s) ==
    LET ses == sessions[s]
        id == IF ses.is_new THEN Len(investments) + 1 ELSE ses.investment
        duplicate == /\ ses.need_link
                     /\ \E k \in DOMAIN investment_documents :
                          /\ investment_documents[k].investment_id = id
                          /\ investment_documents[k].document_id = ses.document
        flipped == [ i \in DOMAIN field_values |->
                       IF i \in ses.flips
                       THEN [field_values[i] EXCEPT !.is_current = FALSE]
                       ELSE field_values[i] ]
        inserted == [ k \in DOMAIN ses.new_fvs |->
                        [ses.new_fvs[k] EXCEPT !.investment_id = id] ]
    IN  /\ ses.pc = "commit"
        /\ IF duplicate
           THEN /\ sessions' = [sessions EXCEPT ![s] =
                      [pc |-> "failed", kind |-> ses.kind, status |-> 500,
                       investment |-> 0, wrote |-> {}, attempts |-> 1]]
                /\ UNCHANGED << investments, field_values,
                                investment_documents, events >>
           ELSE /\ investments' =
                      IF ses.is_new THEN Append(investments, ses.columns)
                      ELSE [investments EXCEPT ![id] =
                               FlushColumns(@, ses.loaded, ses.columns)]
                /\ field_values' = flipped \o inserted
                /\ investment_documents' =
                      IF ses.need_link
                      THEN Append(investment_documents,
                                  InvestmentDocument(id, ses.document))
                      ELSE investment_documents
                /\ events' =
                      IF ses.kind = "save"
                      THEN Append(events,
                                  [ step |-> "extraction",
                                    filename |-> ses.document,
                                    investment_name |-> ses.name,
                                    firm |-> ses.firm, is_new |-> ses.is_new ])
                      ELSE events
                /\ sessions' = [sessions EXCEPT ![s] =
                      [pc |-> "done", kind |-> ses.kind, status |-> 200,
                       investment |-> id,
                       wrote |-> {inserted[k].field_name :
                                     k \in DOMAIN inserted}]]
        /\ UNCHANGED returned

\* Inputs of the concurrent specification: each writer sets the name and
\* the firm of the record; a manual edit changes one field.
SeedData == ExtractionData(AcmeFund, AcmeCapital, None, <<>>)

ConcInputs == { ExtractionData(AcmeFund, AcmeCapital, None, <<>>) }

ConcUpdateInputs ==
    { << <<"investment_name", Beta>> >>, << <<"management_fees", Fees3>> >> }

\* A save that ran alone and committed before the concurrent writers start.
Seed ==
    /\ investments = <<>>
    /\ \A s \in Sessions : sessions[s].pc = "idle"
    /\ SaveInvestment(1, SeedData)
    /\ UNCHANGED pipeline_vars
    /\ Broadcast

StartSave ==
    \E s \in Sessions, document \in {1, 2}, data \in ConcInputs :
        /\ BeginSave(s, document, data)
        /\ UNCHANGED pipeline_vars
        /\ Broadcast

StartEdit ==
    \E s \in Sessions, update \in ConcUpdateInputs, current_user \in Users :
        /\ BeginEdit(s, 1, update, current_user)
        /\ UNCHANGED pipeline_vars
        /\ Broadcast

Step ==
    \E s \in Sessions :
        /\ FindFirm(s) \/ LinkQuery(s) \/ FlipStart(s) \/ FlipResume(s)
           \/ Commit(s)
        /\ UNCHANGED pipeline_vars
        /\ Broadcast

NextConc == Seed \/ StartSave \/ StartEdit \/ Step

SpecConc == Init /\ [][NextConc]_vars

\* Every writer has committed.
AllCommitted == \A s \in Sessions : sessions[s].pc = "done"

\* The sessions that wrote a version of the key.
Writers(investment_id, field_name) ==
    {s \in Sessions : /\ sessions[s].pc = "done"
                      /\ sessions[s].investment = investment_id
                      /\ field_name \in sessions[s].wrote}

\* The versions the key had before the concurrent writers started.
SeedVersions(investment_id, field_name) ==
    IF returned.op = "save"
    THEN {i \in Versions(field_values, investment_id, field_name) :
             i <= NumWritten(StoreLeaders(SeedData.mapped_fields,
                                          SeedData.leaders_raw))}
    ELSE {}

\* C2: after N concurrent writers of the same (investment, field_name) have
\* all committed, exactly one FieldValue of the key is current and the key
\* has N more versions than before.
C2_ConcurrentWritesSerialize ==
    AllCommitted =>
        \A investment_id \in DOMAIN investments, field_name \in Fields :
            LET n == Cardinality(Writers(investment_id, field_name))
            IN  n >= 2 =>
                  /\ Cardinality(CurrentVersions(field_values, investment_id,
                                                 field_name)) = 1
                  /\ Cardinality(Versions(field_values, investment_id,
                                          field_name))
                       = Cardinality(SeedVersions(investment_id, field_name))
                         + n

\* C10: two documents of one owner with the same name and firm, saved
\* concurrently when no matching record existed, leave exactly one
\* Investment, to which both documents are linked.
C10_ResolveOrCreateAtomic ==
    (AllCommitted /\ returned.op = "none") =>
        \A k, l \in DOMAIN events :
            ( /\ events[k].filename # events[l].filename
              /\ DocUser(events[k].filename) = DocUser(events[l].filename)
              /\ Truthy(events[k].investment_name) /\ Truthy(events[k].firm)
              /\ Truthy(events[l].investment_name) /\ Truthy(events[l].firm)
              /\ Lower(events[k].investment_name.s)
                   = Lower(events[l].investment_name.s)
              /\ Lower(events[k].firm.s) = Lower(events[l].firm.s) )
            => LET matches == ExactMatches(investments,
                                  events[k].investment_name, events[k].firm,
                                  DocUser(events[k].filename))
               IN  /\ Cardinality(matches) = 1
                   /\ \A document \in {events[k].filename, events[l].filename} :
                        \E n \in DOMAIN investment_documents :
                            /\ investment_documents[n].document_id = document
                            /\ investment_documents[n].investment_id \in matches

(***************************************************************************)
(* The pipeline: run_email_processing takes the emails one at a time       *)
(* through process_email, which takes the documents of the email one at a  *)
(* time through _process_document.  Every commit is a step.                *)
(***************************************************************************)
TriageClassification == {"YES", "NO", "UNSURE"}

\* AgentResult.ok / AgentResult.fail
AgentResultOk(data) == [ success |-> TRUE, data |-> data, error |-> None ]

AgentResultFail(error) == [ success |-> FALSE, data |-> None, error |-> error ]

\* What the model call of the triage agent can do: raise, or answer with a
\* text that is not JSON, or with a JSON object whose "classification" is
\* one of the three values, another word, or absent.
TriageResponses ==
    { [call |-> "raise"], [call |-> "text", json |-> "invalid"] }
    \cup { [call |-> "text", json |-> "object", classification |-> c] :
             c \in TriageClassification \cup {"MAYBE", "absent"} }

\* TriageAgent.run
TriageAgentRun(response) ==
    IF response.call = "raise"
    THEN AgentResultFail(Str(<<"api">>))
    ELSE IF response.json = "invalid"
    THEN AgentResultOk([classification |-> "UNSURE"])
    ELSE LET value == IF response.classification = "absent"
                      THEN "UNSURE" ELSE response.classification
         IN  IF value \in TriageClassification
             THEN AgentResultOk([classification |-> value])
             ELSE AgentResultFail(Str(<<"ValueError">>))

\* process_email: a failed triage is continued as UNSURE (variant: as NO).
ClassificationFailClosed(triage_result) ==
    IF ~triage_result.success THEN "NO"
    ELSE triage_result.data.classification

\* process_email: a failed triage is continued as UNSURE.
Classification(triage_result) ==
    IF ~triage_result.success THEN "UNSURE"
    ELSE triage_result.data.classification

\* email.status = EmailStatus.SKIPPED.value (variant: FAILED).
MarkSkippedAsFailed(ems, email) == [ ems EXCEPT ![email].status = "failed" ]

\* email.status = EmailStatus.SKIPPED.value
MarkSkipped(ems, email) == [ ems EXCEPT ![email].status = "skipped" ]

\* The handler of process_email's per-document try (variant: the message
\* is not recorded).
HandleFailureNoMessage(docs, document, message) ==
    [ docs EXCEPT ![document].processing_status = "failed" ]

\* The handler of process_email's per-document try.
HandleFailure(docs, document, message) ==
    [ docs EXCEPT ![document] =
        [ processing_status |-> "failed", error_message |-> message ] ]

SetStatus(docs, document, status) ==
    [ docs EXCEPT ![document].processing_status = status ]

\* The events of the pipeline.
TriageEvent(email) ==
    [ step |-> "triage", email_id |-> email, classification |-> "NO" ]

ConvertingEvent(document) ==
    [ step |-> "processing", filename |-> document, stage |-> "converting" ]

ExtractingEvent(document) ==
    [ step |-> "extraction", filename |-> document, stage |-> "extracting" ]

\* Exceptions of pdf_converter.convert_pdf, as str(e).
ConvertErrors == { Str(<<"corrupt pdf">>), Str(<<>>) }

\* Errors of a failed extraction_agent.run.
ExtractionErrors == { Str(<<"quota">>) }

\* Exception(f"Extraction failed: {extraction_result.error}")
ExtractionFailed(error) == Str(<<"Extraction failed: ">> \o error.s)

\* Successful extraction results of the pipeline specification.
PipeInputs ==
    { ExtractionData(AcmeFund, AcmeCapital, None, <<>>),
      ExtractionData(Beta, AcmeCapital, Fees2, <<Jane>>) }

\* The attributes of an Investment object: columns, relationships and
\* properties of the mapped class.
InvestmentAttributes ==
    { "id", "user_id", "investment_name", "firm", "strategy_description",
      "leaders_json", "management_fees", "incentive_fees", "liquidity_lock",
      "target_net_returns", "notes", "is_archived", "created_at",
      "updated_at", "user", "investment_documents", "field_values",
      "documents", "source_count" }

\* The attributes _generate_markdown reads from the investment.
PacketReads ==
    << "investment_name", "firm", "id", "created_at", "updated_at",
       "source_count", "management_fees", "incentive_fees", "liquidity_lock",
       "target_net_returns", "leaders", "strategy_description", "notes",
       "investment_documents" >>

\* PacketService.generate_packet: None when the investment is not found,
\* AttributeError at the first attribute the class does not have.
GeneratePacket(invs, investment_id) ==
    IF investment_id \notin DOMAIN invs
    THEN [ raised |-> FALSE ]
    ELSE IF \E k \in DOMAIN PacketReads :
                PacketReads[k] \notin InvestmentAttributes
    THEN [ raised |-> TRUE,
           error |-> Str(<< "AttributeError",
                            PacketReads[CHOOSE k \in DOMAIN PacketReads :
                               /\ PacketReads[k] \notin InvestmentAttributes
                               /\ \A j \in 1..(k - 1) :
                                    PacketReads[j] \in InvestmentAttributes]
                         >>) ]
    ELSE [ raised |-> FALSE ]

\* The document process_email is working on.
CurrentDocument == EmailDocuments(pipeline.email)[pipeline.doc]

\* The loop of process_email moves to the next document.
NextDocument(p, call) ==
    [ p EXCEPT !.pc = "document", !.doc = @ + 1,
               !.calls[EmailDocuments(p.email)[p.doc]] = Append(@, call) ]

StoreUnchanged ==
    UNCHANGED << investments, field_values, investment_documents, returned,
                 sessions >>

\* _process_user_emails takes the next email; process_email runs the triage
\* and, on NO, skips the email.
TriageEmail ==
    /\ pipeline.pc = "fetch"
    /\ pipeline.email < Cardinality(EmailIds)
    /\ \E response \in TriageResponses :
         LET email == pipeline.email + 1
             triage_result == TriageAgentRun(response)
             classification == Classification(triage_result)
         IN  IF classification = "NO"
             THEN /\ events' = Append(events, TriageEvent(email))
                  /\ emails' = MarkSkipped(emails, email)
                  /\ pipeline' = [ pipeline EXCEPT
                        !.email = email, !.triage[email] = response,
                        !.result[email] =
                            [ done |-> TRUE, investments |-> <<>> ] ]
                  /\ UNCHANGED documents
             ELSE /\ pipeline' = [ pipeline EXCEPT
                        !.pc = "document", !.email = email, !.doc = 1,
                        !.investments = <<>>, !.triage[email] = response ]
                  /\ UNCHANGED << events, emails, documents >>
    /\ StoreUnchanged
    /\ Broadcast

\* _process_document, step 2a up to the commit of CONVERTING.
BeginDocument ==
    /\ pipeline.pc = "document"
    /\ pipeline.doc <= Len(EmailDocuments(pipeline.email))
    /\ events' = Append(events, ConvertingEvent(CurrentDocument))
    /\ documents' = SetStatus(documents, CurrentDocument, "converting")
    /\ pipeline' = [ pipeline EXCEPT !.pc = "convert" ]
    /\ UNCHANGED emails
    /\ StoreUnchanged
    /\ Broadcast

\* convert_pdf and the commit of CONVERTED, or the handler of process_email.
ConvertPdf ==
    /\ pipeline.pc = "convert"
    /\ \/ /\ documents' = SetStatus(documents, CurrentDocument, "converted")
          /\ pipeline' = [ pipeline EXCEPT !.pc = "converted",
                 !.calls[CurrentDocument] = Append(@, "convert_ok") ]
       \/ \E e \in ConvertErrors :
            /\ documents' = HandleFailure(documents, CurrentDocument, e)
            /\ pipeline' = NextDocument(pipeline, "convert_raised")
    /\ UNCHANGED << events, emails >>
    /\ StoreUnchanged
    /\ Broadcast

\* _process_document, step 2b up to the commit of EXTRACTING.
BeginExtraction ==
    /\ pipeline.pc = "converted"
    /\ events' = Append(events, ExtractingEvent(CurrentDocument))
    /\ documents' = SetStatus(documents, CurrentDocument, "extracting")
    /\ pipeline' = [ pipeline EXCEPT !.pc = "extract" ]
    /\ UNCHANGED emails
    /\ StoreUnchanged
    /\ Broadcast

\* extraction_agent.run, then _save_investment on success or the handler of
\* process_email on failure.
Extract ==
    /\ pipeline.pc = "extract"
    /\ \/ \E data \in PipeInputs :
            /\ SaveInvestment(CurrentDocument, data)
            /\ pipeline' = [ pipeline EXCEPT !.pc = "saved",
                   !.investment = returned'.investment,
                   !.calls[CurrentDocument] = Append(@, "extract_ok") ]
            /\ UNCHANGED documents
       \/ \E error \in ExtractionErrors :
            /\ documents' = HandleFailure(documents, CurrentDocument,
                                          ExtractionFailed(error))
            /\ pipeline' = NextDocument(pipeline, "extract_failed")
            /\ UNCHANGED events
            /\ StoreUnchanged
    /\ UNCHANGED emails
    /\ Broadcast

\* The commit of COMPLETED.
Complete ==
    /\ pipeline.pc = "saved"
    /\ documents' = SetStatus(documents, CurrentDocument, "completed")
    /\ pipeline' = [ pipeline EXCEPT !.pc = "packet" ]
    /\ UNCHANGED << events, emails >>
    /\ StoreUnchanged
    /\ Broadcast

\* generate_packet, then `return investment` or the handler of process_email.
Packet ==
    /\ pipeline.pc = "packet"
    /\ LET packet == GeneratePacket(investments, pipeline.investment)
       IN  IF packet.raised
           THEN /\ documents' = HandleFailure(documents, CurrentDocument,
                                              packet.error)
                /\ pipeline' = NextDocument(pipeline, "packet_raised")
           ELSE /\ pipeline' = [ NextDocument(pipeline, "packet_ok") EXCEPT
                      !.investments = Append(@, pipeline.investment) ]
                /\ UNCHANGED documents
    /\ UNCHANGED << events, emails >>
    /\ StoreUnchanged
    /\ Broadcast

\* Mutant: the email's status is not set after process_email.
ReturnInvestmentsNoStatus ==
    /\ pipeline.pc = "document"
    /\ pipeline.doc > Len(EmailDocuments(pipeline.email))
    /\ pipeline' = [ pipeline EXCEPT !.pc = "fetch",
           !.result[pipeline.email] =
               [ done |-> TRUE, investments |-> pipeline.investments ] ]
    /\ UNCHANGED << events, documents, emails >>
    /\ StoreUnchanged
    /\ Broadcast

\* process_email returns; _process_user_emails sets the email's status.
ReturnInvestments ==
    /\ pipeline.pc = "document"
    /\ pipeline.doc > Len(EmailDocuments(pipeline.email))
    /\ LET docs == EmailDocuments(pipeline.email)
           all_completed ==
               \A k \in DOMAIN docs :
                   documents[docs[k]].processing_status
                       \in {"completed", "failed", "skipped"}
           has_failures ==
               \E k \in DOMAIN docs :
                   documents[docs[k]].processing_status = "failed"
       IN  emails' =
               IF all_completed
               THEN [ emails EXCEPT ![pipeline.email].status =
                        IF has_failures THEN "failed" ELSE "completed" ]
               ELSE emails
    /\ pipeline' = [ pipeline EXCEPT !.pc = "fetch",
           !.result[pipeline.email] =
               [ done |-> TRUE, investments |-> pipeline.investments ] ]
    /\ UNCHANGED << events, documents >>
    /\ StoreUnchanged
    /\ Broadcast

NextPipe ==
    \/ TriageEmail
    \/ BeginDocument
    \/ ConvertPdf
    \/ BeginExtraction
    \/ Extract
    \/ Complete
    \/ Packet
    \/ ReturnInvestments

SpecPipe == Init /\ [][NextPipe]_vars

\* The documents of an email, as a set.
DocsOf(email) ==
    { EmailDocuments(email)[k] : k \in DOMAIN EmailDocuments(email) }

\* The events that name the document.
EventsAbout(document) ==
    { k \in DOMAIN events :
        /\ "filename" \in DOMAIN events[k]
        /\ events[k].filename = document }

\* The rows written for the document: its links and its versions.
WrittenFor(document) ==
    { <<"link", k>> : k \in { i \in DOMAIN investment_documents :
          investment_documents[i].document_id = document } }
    \cup
    { <<"version", k>> : k \in { i \in DOMAIN field_values :
          /\ field_values[i].source_type = "document"
          /\ field_values[i].source_id = document } }

\* The step made a collaborator call for the document, with this outcome.
Called(document, outcome) ==
    /\ pipeline'.calls[document] # pipeline.calls[document]
    /\ pipeline'.calls[document][Len(pipeline'.calls[document])] = outcome

\* The pairs of the chain pending -> ... -> completed.
Chain ==
    { <<"pending", "converting">>, <<"converting", "converted">>,
      <<"converted", "extracting">>, <<"extracting", "completed">> }

\* C11: a document's processing_status only moves along pending ->
\* converting -> converted -> extracting -> completed, or to failed from a
\* non-terminal state; a document that reached completed (or failed) never
\* changes status again, packet generation included.
C11_StatusMovesForward ==
    [][ \A d \in DocIds :
          LET old == documents[d].processing_status
              new == documents'[d].processing_status
          IN  old # new =>
                \/ <<old, new>> \in Chain
                \/ new = "failed" /\ old \notin {"completed", "failed"} ]_vars

\* The document failed before anything was saved for it: its conversion
\* raised, or its extraction returned a failure.
FailedBeforeSave(document) ==
    pipeline.calls[document]
        \in { <<"convert_raised">>, <<"convert_ok", "extract_failed">> }

\* C12: when the conversion raises or the extraction returns a failure, the
\* document ends failed with a non-null error_message, the failing step
\* leaves investments, links and versions as they were, and no link or
\* version ever names the document.
C12_FailureWritesNothing ==
    /\ [](\A d \in DocIds : FailedBeforeSave(d) =>
            /\ documents[d].processing_status = "failed"
            /\ documents[d].error_message # None
            /\ WrittenFor(d) = {})
    /\ [][ \A d \in DocIds :
             (Called(d, "convert_raised") \/ Called(d, "extract_failed")) =>
                UNCHANGED << investments, field_values,
                             investment_documents >> ]_vars

C12_Witness ==
    /\ pipeline.calls[1] = <<"convert_ok", "extract_ok", "packet_raised">>
    /\ pipeline.calls[2] = <<"convert_ok", "extract_failed">>
    /\ pipeline.calls[3] = <<"convert_raised">>
    /\ documents[2].processing_status = "failed"
    /\ documents[3].processing_status = "failed"
    /\ investments # <<>>

\* The failure-stage events of a document.
FailureEvents(document) ==
    { k \in EventsAbout(document) :
        \/ events[k].step = "error"
        \/ "stage" \in DOMAIN events[k] /\ events[k].stage = "failed" }

\* C13: when a document's conversion raises, exactly one failure-stage
\* ProgressEvent is emitted for that document.
C13_OneFailureEvent ==
    \A d \in DocIds :
        pipeline.calls[d] = <<"convert_raised">> =>
            Cardinality(FailureEvents(d)) = 1

\* The email went through process_email without being skipped.
Processed(email) ==
    /\ pipeline.result[email].done
    /\ emails[email].status # "skipped"

\* Conversion, extraction and the save of the document all succeeded.
Succeeded(document) ==
    /\ Len(pipeline.calls[document]) >= 2
    /\ SubSeq(pipeline.calls[document], 1, 2) = <<"convert_ok", "extract_ok">>

\* C14: one document's failure does not abort its siblings: when
\* process_email has returned, every document of the email is completed or
\* failed, and every document that succeeded has its investment in the
\* returned list; the emails before the current one have all been handled.
C14_SiblingsSurvive ==
    /\ \A e \in EmailIds : Processed(e) =>
         \A d \in DocsOf(e) :
            /\ documents[d].processing_status \in {"completed", "failed"}
            /\ Succeeded(d) =>
                 \E k \in DOMAIN pipeline.result[e].investments,
                    l \in DOMAIN investment_documents :
                     /\ investment_documents[l].document_id = d
                     /\ investment_documents[l].investment_id
                            = pipeline.result[e].investments[k]
    /\ \A e \in EmailIds :
         (e < pipeline.email) =>
            /\ pipeline.result[e].done
            /\ emails[e].status \in {"skipped", "failed", "completed"}

\* The triage answered with an explicit NO.
ExplicitNo ==
    [ call |-> "text", json |-> "object", classification |-> "NO" ]

\* The events of the unit: those of the email and those of its documents.
UnitEvents(email) ==
    { k \in DOMAIN events :
        \/ "email_id" \in DOMAIN events[k] /\ events[k].email_id = email
        \/ \E d \in DocsOf(email) : k \in EventsAbout(d) }

\* C15: when triage answers NO, the email ends skipped, process_email
\* returns an empty list, the step writes no Investment, link or version,
\* every document of the email stays pending and has no row written for it,
\* and exactly one ProgressEvent is emitted for the unit.
C15_SkippedOnNo ==
    /\ [](\A e \in EmailIds : pipeline.triage[e] = ExplicitNo =>
            /\ emails[e].status = "skipped"
            /\ pipeline.result[e] = [ done |-> TRUE, investments |-> <<>> ]
            /\ \A d \in DocsOf(e) :
                 /\ documents[d] = Document
                 /\ WrittenFor(d) = {}
            /\ Cardinality(UnitEvents(e)) = 1)
    /\ [][ \A e \in EmailIds :
             (pipeline.triage[e] # ExplicitNo
                 /\ pipeline'.triage[e] = ExplicitNo) =>
                UNCHANGED << investments, field_values,
                             investment_documents >> ]_vars

C15_Witness ==
    /\ pipeline.triage[2] = ExplicitNo
    /\ emails[2].status = "skipped"
    /\ Processed(1)
    /\ Succeeded(1)
    /\ Len(events) > 1

\* Conversion was invoked for the document, and extraction was invoked if
\* the conversion returned.
DrivenThrough(document) ==
    LET calls == pipeline.calls[document]
    IN  /\ calls # <<>>
        /\ calls[1] \in {"convert_ok", "convert_raised"}
        /\ calls[1] = "convert_ok" =>
             /\ Len(calls) >= 2
             /\ calls[2] \in {"extract_ok", "extract_failed"}

\* C16: triage fails open: for every answer other than an explicit NO
\* (UNSURE, a text that cannot be parsed, a failed call, an unknown word)
\* the triage step enters the document loop exactly as for YES, and when
\* process_email has returned every document of the email has been driven
\* through conversion and extraction.
C16_TriageFailsOpen ==
    /\ [](\A e \in EmailIds :
            (pipeline.result[e].done /\ pipeline.triage[e] # ExplicitNo) =>
                /\ emails[e].status # "skipped"
                /\ \A d \in DocsOf(e) : DrivenThrough(d))
    /\ [][ \A e \in EmailIds :
             ( /\ pipeline.triage[e] = [call |-> "none"]
               /\ pipeline'.triage[e] \notin {[call |-> "none"], ExplicitNo} )
             => /\ pipeline'.pc = "document"
                /\ pipeline'.email = e
                /\ pipeline'.doc = 1
                /\ UNCHANGED << events, emails, documents >> ]_vars

C16_Witness ==
    /\ pipeline.triage[1] = [call |-> "text", json |-> "invalid"]
    /\ pipeline.triage[2] = [call |-> "raise"]
    /\ Processed(1) /\ Processed(2)
    /\ \A d \in DocIds : Succeeded(d)

(***************************************************************************)
(* The bus on its own: emit, subscribe, unsubscribe and clear called one   *)
(* at a time, and the readers of the queues.  It starts either empty or    *)
(* with one subscriber that has not read the events emitted so far and     *)
(* has room for one more.                                                  *)
(***************************************************************************)
\* ProgressEvent(step, ...); the timestamp is the number of the emit.
ProgressEvent(step, timestamp) == [ step |-> step, timestamp |-> timestamp ]

BusSteps == {"processing"}

SubscribeCall(queue) == [ call |-> "subscribe", queue |-> queue ]

UnsubscribeCall(queue) == [ call |-> "unsubscribe", queue |-> queue ]

ClearCall == [ call |-> "clear" ]

GetCall(queue) == [ call |-> "get", queue |-> queue ]

\* The events a slow subscriber has waiting: one less than its queue holds.
Backlog == [ k \in 1..(maxsize - 1) |-> ProgressEvent("processing", k) ]

BacklogLog ==
    <<SubscribeCall(1)>> \o [ k \in DOMAIN Backlog |-> EmitCall(Backlog[k]) ]

InitBus ==
    /\ InitStore
    /\ \/ /\ events = <<>>
          /\ listeners = <<>>
          /\ queues = <<>>
          /\ current_step = ""
          /\ log = <<>>
          /\ consumers = <<>>
       \/ /\ events = Backlog
          /\ listeners = <<1>>
          /\ queues = <<Backlog>>
          /\ current_step = "processing"
          /\ log = BacklogLog
          /\ consumers = <<Consumer>>

\* The calls made since the start.
NewCalls ==
    IF Len(log) >= Len(BacklogLog)
       /\ SubSeq(log, 1, Len(BacklogLog)) = BacklogLog
    THEN SubSeq(log, Len(BacklogLog) + 1, Len(log))
    ELSE log

NumCalls(calls, call) ==
    Cardinality({ k \in DOMAIN calls : calls[k].call = call })

\* Room for one more call other than emit.
CallsLeft == Len(NewCalls) - NumCalls(NewCalls, "emit") < MaxCalls

SetTracker(t) ==
    /\ events' = t.events
    /\ listeners' = t.listeners
    /\ current_step' = t.current_step
    /\ queues' = t.queues

BusFrame ==
    UNCHANGED << investments, field_values, investment_documents, returned,
                 sessions, pipeline_vars >>

Subscribe ==
    /\ CallsLeft
    /\ SetTracker(subscribe(Tracker))
    /\ consumers' = Append(consumers, Consumer)
    /\ log' = Append(log, SubscribeCall(Len(queues) + 1))
    /\ BusFrame

\* unsubscribe of a queue subscribe returned, listed or not, or of a queue
\* that was never subscribed (0).
Unsubscribe ==
    \E q \in {0} \cup DOMAIN queues :
        /\ CallsLeft
        /\ SetTracker(unsubscribe(Tracker, q))
        /\ log' = Append(log, UnsubscribeCall(q))
        /\ UNCHANGED consumers
        /\ BusFrame

Emit ==
    \E step \in BusSteps :
        LET event == ProgressEvent(step, NumCalls(log, "emit") + 1)
            t == emit(Tracker, event)
        IN  /\ NumCalls(NewCalls, "emit") < MaxEmits
            /\ SetTracker(t)
            /\ consumers' = MarkFull(consumers, t.queues)
            /\ log' = Append(log, EmitCall(event))
            /\ BusFrame

Clear ==
    /\ CallsLeft
    /\ SetTracker(clear(Tracker))
    /\ log' = Append(log, ClearCall)
    /\ UNCHANGED consumers
    /\ BusFrame

\* queue.get() in progress_stream.
Get ==
    \E q \in DOMAIN queues :
        /\ queues[q] # <<>>
        /\ CallsLeft
        /\ queues' = [ queues EXCEPT ![q] = Tail(@) ]
        /\ consumers' = [ consumers EXCEPT
               ![q].received = Append(@, Head(queues[q])) ]
        /\ log' = Append(log, GetCall(q))
        /\ UNCHANGED << events, listeners, current_step >>
        /\ BusFrame

NextBus == Subscribe \/ Unsubscribe \/ Emit \/ Clear \/ Get

SpecBus == InitBus /\ [][NextBus]_vars

\* Position in the log of the subscribe that created the queue.
SubscribedAt(q) ==
    CHOOSE k \in DOMAIN log : log[k] = SubscribeCall(q)

\* Position in the log of the unsubscribe of the queue, or past the end.
UnsubscribedAt(q) ==
    IF \E k \in DOMAIN log : log[k] = UnsubscribeCall(q)
    THEN CHOOSE k \in DOMAIN log :
            /\ log[k] = UnsubscribeCall(q)
            /\ \A j \in 1..(k - 1) : log[j] # UnsubscribeCall(q)
    ELSE Len(log) + 1

IsEmit(c) == c.call = "emit"

\* The events emitted after the queue's subscribe and before its
\* unsubscribe, in order.
Window(q) ==
    LET calls == SelectSeq(SubSeq(log, SubscribedAt(q) + 1,
                                  UnsubscribedAt(q) - 1), IsEmit)
    IN  [ k \in DOMAIN calls |-> calls[k].event ]

\* The events placed in the queue so far, in order: those its reader took
\* and those still in it.
Placed(q) == consumers[q].received \o queues[q]

\* C17: the bus is a FIFO broadcast: for every subscriber whose queue was
\* never full, the events placed in its queue are, in order, exactly the
\* events emitted after its subscribe and before its unsubscribe; events
\* emitted before the subscribe are not among them.
C17_FifoBroadcast ==
    \A q \in DOMAIN queues :
        ~consumers[q].was_full => Placed(q) = Window(q)

C17_Witness ==
    \E q \in DOMAIN queues :
        /\ ~consumers[q].was_full
        /\ SubscribedAt(q) > 1
        /\ \E k \in 1..(SubscribedAt(q) - 1) : IsEmit(log[k])
        /\ UnsubscribedAt(q) < Len(log)
        /\ IsEmit(log[Len(log)])
        /\ Len(Window(q)) = 1
        /\ consumers[q].received = Window(q)

\* The step is a call of emit.
EmitStep ==
    /\ Len(log') = Len(log) + 1
    /\ IsEmit(log'[Len(log')])

\* C18: a subscriber queue never holds more than 100 events; an emit that
\* finds a queue full leaves that queue as it was (the new event is
\* dropped for that subscriber), gives the event to every other listener
\* with room and appends it to the history.
C18_DropNewest ==
    /\ [](\A q \in DOMAIN queues : Len(queues[q]) <= maxsize)
    /\ [][ EmitStep =>
             LET event == log'[Len(log')].event
             IN  /\ events' = Append(events, event)
                 /\ \A q \in DOMAIN queues :
                      queues'[q] =
                         IF (\E k \in DOMAIN listeners : listeners[k] = q)
                            /\ Len(queues[q]) < maxsize
                         THEN Append(queues[q], event)
                         ELSE queues[q] ]_vars

C18_Witness ==
    \E full, other \in DOMAIN queues :
        /\ IsEmit(log[Len(log)])
        /\ Len(queues[full]) = maxsize
        /\ UnsubscribedAt(full) > Len(log)
        /\ Len(Window(full)) > Len(Placed(full))
        /\ queues[full][maxsize] # log[Len(log)].event
        /\ UnsubscribedAt(other) > Len(log)
        /\ queues[other] # <<>>
        /\ queues[other][Len(queues[other])] = log[Len(log)].event
        /\ events[Len(events)] = log[Len(log)].event

\* The step is a call of clear.
ClearStep ==
    /\ Len(log') = Len(log) + 1
    /\ log'[Len(log')] = ClearCall

\* C19: clear() empties the event history and the current step and leaves
\* the listener list and every queue as they were; an emit after a clear
\* still reaches the listeners that subscribed before it.
C19_ClearKeepsSubscribers ==
    [][ /\ ClearStep =>
             /\ events' = <<>>
             /\ current_step' = ""
             /\ UNCHANGED << listeners, queues, consumers >>
        /\ (EmitStep /\ \E c \in DOMAIN log : log[c] = ClearCall) =>
             \A q \in DOMAIN queues :
                ( /\ \E c \in DOMAIN log :
                        log[c] = ClearCall /\ SubscribedAt(q) < c
                  /\ UnsubscribedAt(q) > Len(log)
                  /\ Len(queues[q]) < maxsize )
                => queues'[q] = Append(queues[q], log'[Len(log')].event)
      ]_vars

C19_Witness ==
    \E q \in DOMAIN queues, c \in DOMAIN log :
        /\ log[c] = ClearCall
        /\ SubscribedAt(q) < c
        /\ c < Len(log)
        /\ IsEmit(log[Len(log)])
        /\ \A k \in (c + 1)..Len(log) : IsEmit(log[k])
        /\ events = Window(q)
        /\ Len(events) = Len(log) - c
        /\ queues[q] = events

(***************************************************************************)
(* Manual edits.                                                           *)
(***************************************************************************)
\* The step is a successful PUT.
EditStep ==
    /\ returned'.op = "update"
    /\ returned'.status = 200

\* The PUT changed the column of the field.
ColumnChanged(f) ==
    investments'[returned'.investment][f] # investments[returned'.investment][f]

\* C21: a manual edit of a tracked field to a value different from the
\* record's present value adds exactly one version, with source_type
\* 'manual' and confidence 'verified', which is then the only current
\* version of the field; an edit to the present value adds no version and
\* touches none (so the same edit applied twice adds one version, not two).
C21_EditAddsOneVersion ==
    [][ EditStep =>
          /\ \A i \in DOMAIN field_values :
                field_values'[i] # field_values[i] =>
                    /\ field_values[i].investment_id = returned'.investment
                    /\ ColumnChanged(field_values[i].field_name)
          /\ \A i \in (Len(field_values) + 1)..Len(field_values') :
                /\ field_values'[i].investment_id = returned'.investment
                /\ ColumnChanged(field_values'[i].field_name)
                /\ field_values'[i].source_type = "manual"
                /\ field_values'[i].confidence = "verified"
                /\ CurrentVersions(field_values', returned'.investment,
                                   field_values'[i].field_name) = {i}
          /\ \A f \in tracked_fields :
                ColumnChanged(f) =>
                    \E i \in (Len(field_values) + 1)..Len(field_values') :
                        field_values'[i].field_name = f ]_vars

C21_Witness ==
    /\ returned.op = "update"
    /\ returned.status = 200
    /\ \E i, j \in DOMAIN field_values :
          /\ field_values[i].investment_id = returned.investment
          /\ field_values[j].investment_id = returned.investment
          /\ field_values[i].field_name = "management_fees"
          /\ field_values[j].field_name = "management_fees"
          /\ field_values[i].source_type = "document"
          /\ ~field_values[i].is_current
          /\ field_values[j].source_type = "manual"
          /\ field_values[j].is_current
          /\ field_values[j].field_value = Fees3
          /\ investments[returned.investment]["management_fees"] = Fees3

\* Bodies of the requests of the request specification.
PutInputs ==
    { << <<"investment_name", Beta>> >>, << <<"management_fees", Fees3>> >> }

\* The request update_investment is answering: its path parameter and the
\* user of its token.
Request(investment_id, current_user) ==
    [ pc |-> "put", investment_id |-> investment_id,
      current_user |-> current_user ]

\* PUT /investments/{investment_id} by any user for any id.
Put ==
    \E investment_id \in 1..(MaxSaves + 1), update \in PutInputs,
       current_user \in Users :
        /\ UpdateInvestment(investment_id, update, current_user)
        /\ NumManual(field_values') <= MaxEdits
        /\ pipeline' = Request(investment_id, current_user)
        /\ UNCHANGED << documents, emails >>
        /\ Broadcast

NextPut == Save \/ Put

SpecPut == Init /\ [][NextPut]_vars

\* C22: a PUT addressed to an id that does not exist, or to a record owned
\* by another user, is answered 404 and leaves every Investment, FieldValue
\* and link as it was; a PUT answered 200 was addressed to a record of the
\* current user.
C22_UnknownRecordIsNotFound ==
    [][ returned'.op = "update" =>
          LET id == pipeline'.investment_id
              known == /\ id \in DOMAIN investments
                       /\ investments[id].user_id = pipeline'.current_user
          IN  /\ returned'.status = (IF known THEN 200 ELSE 404)
              /\ ~known => UNCHANGED << investments, field_values,
                                        investment_documents >> ]_vars

\* A PUT for a record of another user was answered 404.
C22_Witness ==
    /\ returned.op = "update"
    /\ returned.status = 404
    /\ pipeline.investment_id \in DOMAIN investments
    /\ investments[pipeline.investment_id].user_id # pipeline.current_user
    /\ field_values # <<>>

(***************************************************************************)
(* The order of the two matching steps.  Three saves are needed before an  *)
(* owner holds two records of one firm whose names contain one another:    *)
(* the second record must be created while the firm query returns a third  *)
(* record whose name is unrelated.                                         *)
(***************************************************************************)
ExactInputs ==
    { ExtractionData(nf[1], nf[2], None, <<>>) :
        nf \in { <<AcmeFund, AcmeCapital>>, <<Beta, AcmeCapital>>,
                 <<acme_fund_i, acme_capital>> } }

\* The documents of one owner.
ExactDocs == {d \in DocIds : DocUser(d) = 1}

SaveExact ==
    \E document \in ExactDocs, data \in ExactInputs :
        /\ Len(events) < MaxExactSaves
        /\ SaveInvestment(document, data)
        /\ UNCHANGED pipeline_vars
        /\ Broadcast

NextExact == SaveExact \/ Probe

SpecExact == Init /\ [][NextExact]_vars

\* C23: exact match short-circuits: when a name and a firm are supplied and
\* some record of the owner equals both case-insensitively, the call returns
\* a record whose name and firm both equal the input case-insensitively,
\* even when another record of the firm satisfies the substring rule.
C23_ExactMatchFirst ==
    ( /\ returned.op = "find"
      /\ Truthy(returned.name) /\ Truthy(returned.firm)
      /\ ExactMatches(investments, returned.name, returned.firm,
                      returned.user_id) # {} )
    => \A r \in {returned.investment, returned.again} :
          /\ r # 0
          /\ investments[r].user_id = returned.user_id
          /\ SqlLowerEq(investments[r].investment_name, returned.name)
          /\ SqlLowerEq(investments[r].firm, returned.firm)

\* An exact match was returned while another record of the owner has the
\* firm and a different name that contains the name asked for.
C23_Witness ==
    /\ returned.op = "find"
    /\ Truthy(returned.name) /\ Truthy(returned.firm)
    /\ returned.investment \in ExactMatches(investments, returned.name,
                                  returned.firm, returned.user_id)
    /\ \E j \in FirmCandidates(investments, returned.name, returned.firm,
                                returned.user_id) :
          /\ Truthy(investments[j].investment_name)
          /\ ~SqlLowerEq(investments[j].investment_name, returned.name)

\* A save whose extraction carried no firm.
FirmlessSave ==
    /\ returned'.op = "save"
    /\ Len(events') = Len(events) + 1
    /\ ~Truthy(events'[Len(events')].firm)

\* C24: without a firm there is never a match: a call with no firm returns
\* no match, whether or not a name is given and whatever the records hold,
\* and a save of such an extraction creates a new Investment, so k such
\* saves create k records.
C24_NoFirmNoMatch ==
    /\ [](( returned.op = "find" /\ ~Truthy(returned.firm) )
            => ( returned.investment = 0 /\ returned.again = 0 ))
    /\ [][ FirmlessSave =>
             /\ returned'.is_new
             /\ Len(investments') = Len(investments) + 1
             /\ returned'.investment = Len(investments')
             /\ \A i \in DOMAIN investments :
                   investments'[i] = investments[i] ]_vars
    /\ [](Cardinality({k \in DOMAIN events : ~Truthy(events[k].firm)})
             <= Len(investments))

\* Two saves with the same name and no firm left two records.
C24_Witness ==
    /\ returned.op = "save"
    /\ Len(events) = 2
    /\ \A k \in 1..2 : /\ ~Truthy(events[k].firm)
                       /\ events[k].investment_name = AcmeFund
                       /\ events[k].is_new
    /\ DocUser(events[1].filename) = DocUser(events[2].filename)
    /\ Len(investments) = 2
    /\ investments[1].investment_name = AcmeFund

(***************************************************************************)
(* _process_document statement by statement, in one database session.      *)
(* documents, investments, field_values and investment_documents hold the  *)
(* committed rows; pipeline.dirty is the status the session has assigned   *)
(* to the document and not yet committed ("" when there is none).  The     *)
(* process may be abandoned before any statement: the session is lost with *)
(* its uncommitted work.  A later run calls _process_document again on the *)
(* same document and the collaborators answer as before.                   *)
(***************************************************************************)
\* Mutant: the commits of CONVERTING and EXTRACTING come after the calls.
ProcessDocumentLateCommit ==
    << [ op |-> "emit", arg |-> "converting", line |-> 113 ],
       [ op |-> "set", arg |-> "converting", line |-> 118 ],
       [ op |-> "convert_pdf", arg |-> "", line |-> 124 ],
       [ op |-> "commit", arg |-> "", line |-> 119 ],
       [ op |-> "set", arg |-> "converted", line |-> 130 ],
       [ op |-> "commit", arg |-> "", line |-> 131 ],
       [ op |-> "emit", arg |-> "extracting", line |-> 134 ],
       [ op |-> "set", arg |-> "extracting", line |-> 140 ],
       [ op |-> "extract", arg |-> "", line |-> 143 ],
       [ op |-> "commit", arg |-> "", line |-> 141 ],
       [ op |-> "save", arg |-> "", line |-> 163 ],
       [ op |-> "set", arg |-> "completed", line |-> 165 ],
       [ op |-> "commit", arg |-> "", line |-> 166 ],
       [ op |-> "packet", arg |-> "", line |-> 170 ] >>

\* The statements of _process_document that touch the session, a
\* collaborator or the tracker, in program order.
ProcessDocument ==
    << [ op |-> "emit", arg |-> "converting", line |-> 113 ],
       [ op |-> "set", arg |-> "converting", line |-> 118 ],
       [ op |-> "commit", arg |-> "", line |-> 119 ],
       [ op |-> "convert_pdf", arg |-> "", line |-> 124 ],
       [ op |-> "set", arg |-> "converted", line |-> 130 ],
       [ op |-> "commit", arg |-> "", line |-> 131 ],
       [ op |-> "emit", arg |-> "extracting", line |-> 134 ],
       [ op |-> "set", arg |-> "extracting", line |-> 140 ],
       [ op |-> "commit", arg |-> "", line |-> 141 ],
       [ op |-> "extract", arg |-> "", line |-> 143 ],
       [ op |-> "save", arg |-> "", line |-> 163 ],
       [ op |-> "set", arg |-> "completed", line |-> 165 ],
       [ op |-> "commit", arg |-> "", line |-> 166 ],
       [ op |-> "packet", arg |-> "", line |-> 170 ] >>

\* The document that is driven.
Driven == 1

\* Extraction results of the re-drive specification.
DriveInputs ==
    { ExtractionData(AcmeFund, AcmeCapital, Fees2, <<Jane>>),
      ExtractionData(AcmeFund, None, None, <<>>) }

\* What convert_pdf and extraction_agent.run answer for the document.
ConvertResults ==
    { [ raised |-> FALSE, error |-> Empty ] }
    \cup { [ raised |-> TRUE, error |-> e ] : e \in ConvertErrors }

ExtractionResults ==
    { [ success |-> TRUE, data |-> x, error |-> Empty ] : x \in DriveInputs }
    \cup { [ success |-> FALSE, data |-> ExtractionData(None, None, None, <<>>),
             error |-> e ] : e \in ExtractionErrors }

DriveOutputs ==
    { [ convert |-> c, extraction |-> x ] :
        c \in ConvertResults, x \in ExtractionResults }

\* The first call of _process_document on the document.  marks lists the
\* committed status changes with the number of events emitted before each;
\* abandoned lists the statements before which a run was abandoned.
FirstRun(outputs) ==
    [ pc |-> "run", at |-> 1, run |-> 1, dirty |-> "", outputs |-> outputs,
      investment |-> 0, marks |-> <<>>, abandoned |-> <<>> ]

InitDrive ==
    /\ investments = <<>>
    /\ field_values = <<>>
    /\ investment_documents = <<>>
    /\ returned = [op |-> "none"]
    /\ sessions = [s \in 1..NumSessions |-> Idle]
    /\ documents = [d \in DocIds |-> Document]
    /\ emails = [e \in EmailIds |-> Email]
    /\ \E outputs \in DriveOutputs : pipeline = FirstRun(outputs)
    /\ events = <<>>
    /\ listeners = <<>>
    /\ queues = <<>>
    /\ current_step = ""
    /\ log = <<>>
    /\ consumers = <<>>

\* The statement the run is about to execute.
Stmt == ProcessDocument[pipeline.at]

Running(op) ==
    /\ pipeline.pc = "run"
    /\ pipeline.at \in DOMAIN ProcessDocument
    /\ Stmt.op = op

\* db.commit(): the session's pending status reaches the table.
Flush(docs, document, dirty) ==
    IF dirty = "" THEN docs ELSE SetStatus(docs, document, dirty)

\* The committed status changes after a commit that leaves `docs`.
Marked(docs) ==
    IF docs[Driven].processing_status = documents[Driven].processing_status
    THEN pipeline.marks
    ELSE Append(pipeline.marks,
                [ status |-> docs[Driven].processing_status,
                  events |-> Len(events') ])

\* The handler of process_email: FAILED, error_message, commit.
Handled(message) ==
    /\ documents' = HandleFailure(Flush(documents, Driven, pipeline.dirty),
                                  Driven, message)
    /\ pipeline' = [ pipeline EXCEPT !.pc = "done", !.dirty = "",
                                     !.marks = Marked(documents') ]

DriveFrame == UNCHANGED << emails, sessions >>

\* self.progress.emit(...) of lines 113 and 134.
DriveEmit ==
    /\ Running("emit")
    /\ events' = Append(events, IF Stmt.arg = "converting"
                                THEN ConvertingEvent(Driven)
                                ELSE ExtractingEvent(Driven))
    /\ pipeline' = [ pipeline EXCEPT !.at = @ + 1 ]
    /\ UNCHANGED << documents, investments, field_values,
                    investment_documents, returned >>
    /\ DriveFrame
    /\ Broadcast

\* document.processing_status = ...
DriveSet ==
    /\ Running("set")
    /\ pipeline' = [ pipeline EXCEPT !.at = @ + 1, !.dirty = Stmt.arg ]
    /\ UNCHANGED << documents, events, investments, field_values,
                    investment_documents, returned >>
    /\ DriveFrame
    /\ Broadcast

\* self.db.commit()
DriveCommit ==
    /\ Running("commit")
    /\ documents' = Flush(documents, Driven, pipeline.dirty)
    /\ UNCHANGED events
    /\ pipeline' = [ pipeline EXCEPT !.at = @ + 1, !.dirty = "",
                                     !.marks = Marked(documents') ]
    /\ UNCHANGED << investments, field_values, investment_documents,
                    returned >>
    /\ DriveFrame
    /\ Broadcast

\* self.pdf_converter.convert_pdf(...)
DriveConvert ==
    /\ Running("convert_pdf")
    /\ UNCHANGED events
    /\ IF pipeline.outputs.convert.raised
       THEN Handled(pipeline.outputs.convert.error)
       ELSE /\ pipeline' = [ pipeline EXCEPT !.at = @ + 1 ]
            /\ UNCHANGED documents
    /\ UNCHANGED << investments, field_values, investment_documents,
                    returned >>
    /\ DriveFrame
    /\ Broadcast

\* await self.extraction_agent.run(markdown)
DriveExtract ==
    /\ Running("extract")
    /\ UNCHANGED events
    /\ IF pipeline.outputs.extraction.success
       THEN /\ pipeline' = [ pipeline EXCEPT !.at = @ + 1 ]
            /\ UNCHANGED documents
       ELSE Handled(ExtractionFailed(pipeline.outputs.extraction.error))
    /\ UNCHANGED << investments, field_values, investment_documents,
                    returned >>
    /\ DriveFrame
    /\ Broadcast

\* self._save_investment(document, mapped_fields): its commit takes the
\* session's pending status with it.
DriveSave ==
    /\ Running("save")
    /\ SaveInvestment(Driven, pipeline.outputs.extraction.data)
    /\ documents' = Flush(documents, Driven, pipeline.dirty)
    /\ pipeline' = [ pipeline EXCEPT !.at = @ + 1, !.dirty = "",
                         !.investment = returned'.investment,
                         !.marks = Marked(documents') ]
    /\ UNCHANGED emails
    /\ Broadcast

\* packet_service.generate_packet(investment.id) and `return investment`.
DrivePacket ==
    /\ Running("packet")
    /\ UNCHANGED events
    /\ LET packet == GeneratePacket(investments, pipeline.investment)
       IN  IF packet.raised
           THEN Handled(packet.error)
           ELSE /\ pipeline' = [ pipeline EXCEPT !.pc = "done" ]
                /\ UNCHANGED documents
    /\ UNCHANGED << investments, field_values, investment_documents,
                    returned >>
    /\ DriveFrame
    /\ Broadcast

\* The process stops before its next statement; the session is gone.
Abandon ==
    /\ pipeline.pc = "run"
    /\ pipeline' = [ pipeline EXCEPT !.pc = "abandoned", !.dirty = "",
                         !.abandoned = Append(@, pipeline.at) ]
    /\ UNCHANGED << documents, events, investments, field_values,
                    investment_documents, returned >>
    /\ DriveFrame
    /\ Broadcast

\* The document is processed again from the start.
Redrive ==
    /\ pipeline.pc = "abandoned"
    /\ pipeline.run < MaxRuns
    /\ pipeline' = [ pipeline EXCEPT !.pc = "run", !.at = 1, !.run = @ + 1 ]
    /\ UNCHANGED << documents, events, investments, field_values,
                    investment_documents, returned >>
    /\ DriveFrame
    /\ Broadcast

NextDrive ==
    \/ DriveEmit
    \/ DriveSet
    \/ DriveCommit
    \/ DriveConvert
    \/ DriveExtract
    \/ DriveSave
    \/ DrivePacket
    \/ Abandon
    \/ Redrive

SpecDrive == InitDrive /\ [][NextDrive]_vars

\* The status a collaborator call belongs to.
Stage(op) == IF op = "convert_pdf" THEN "converting" ELSE "extracting"

\* A collaborator is about to be invoked.
AtCall ==
    /\ pipeline.pc = "run"
    /\ pipeline.at \in DOMAIN ProcessDocument
    /\ Stmt.op \in {"convert_pdf", "extract"}

\* C25: every stage transition is durable before the stage's work starts:
\* when convert_pdf or the extraction agent is invoked, the committed status
\* of the document is converting, respectively extracting, and the session
\* holds no uncommitted write; a run abandoned during the call leaves the
\* persisted status equal to the stage in progress.
C25_StageDurableBeforeWork ==
    /\ [](AtCall => /\ pipeline.dirty = ""
                    /\ documents[Driven].processing_status = Stage(Stmt.op))
    /\ [][ (AtCall /\ pipeline'.pc = "abandoned") =>
             documents'[Driven].processing_status = Stage(Stmt.op) ]_vars

\* A second run was abandoned during the extraction call and the table
\* says extracting.
C25_Witness ==
    /\ pipeline.pc = "abandoned"
    /\ pipeline.run = 2
    /\ ProcessDocument[pipeline.abandoned[2]].op = "extract"
    /\ documents[Driven].processing_status = "extracting"

\* C26: every document state transition is followed by a ProgressEvent: for
\* each committed transition (to converting, converted, extracting,
\* completed or failed) an event is emitted after the commit and before the
\* next transition of the document, or before the run ends when it is the
\* last one.
C26_EventAfterEveryTransition ==
    \A k \in DOMAIN pipeline.marks :
        /\ k < Len(pipeline.marks) =>
              pipeline.marks[k + 1].events > pipeline.marks[k].events
        /\ (k = Len(pipeline.marks) /\ pipeline.pc = "done") =>
              Len(events) > pipeline.marks[k].events

\* The last committed transition to completed, 0 when there is none.
CompletedMark ==
    LET ks == {k \in DOMAIN pipeline.marks :
                 pipeline.marks[k].status = "completed"}
    IN  IF ks = {} THEN 0 ELSE CHOOSE k \in ks : \A j \in ks : j <= k

\* C27: for every document that completes, the final event of its pipeline
\* is emitted after the transition to completed and tells whether the
\* record was new: is_new is true exactly when the save created the
\* Investment.
C27_FinalEventAfterCompleted ==
    (pipeline.pc = "done" /\ CompletedMark # 0) =>
        /\ Len(events) > pipeline.marks[CompletedMark].events
        /\ "is_new" \in DOMAIN events[Len(events)]
        /\ events[Len(events)].filename = Driven
        /\ events[Len(events)].is_new = returned.is_new

\* The rows an uninterrupted run of the document leaves in an empty store.
Uninterrupted ==
    LET o == pipeline.outputs
        saved == ~o.convert.raised /\ o.extraction.success
        mapped_fields == StoreLeaders(o.extraction.data.mapped_fields,
                                      o.extraction.data.leaders_raw)
    IN  [ investments |->
              IF saved
              THEN << UpdateDenormalizedFields(Investment(DocUser(Driven)),
                                               mapped_fields) >>
              ELSE <<>>,
          field_values |->
              IF saved
              THEN CreateFieldValues(<<>>, 1, mapped_fields, Driven)
              ELSE <<>> ]

\* The current values of a field_values table.
CurrentValues(fvs) ==
    { << fvs[i].investment_id, fvs[i].field_name, fvs[i].field_value >> :
        i \in {j \in DOMAIN fvs : fvs[j].is_current} }

\* C28: re-driving is safe: when runs of _process_document on a document
\* were abandoned and the document was processed again from the start with
\* the same collaborator outputs, the final state has the Investments and
\* the current values of an uninterrupted run, with at most one link per
\* (investment, document).
C28_RedriveSafe ==
    pipeline.pc = "done" =>
        /\ investments = Uninterrupted.investments
        /\ CurrentValues(field_values)
              = CurrentValues(Uninterrupted.field_values)
        /\ \A k, l \in DOMAIN investment_documents :
              ( /\ investment_documents[k].investment_id
                      = investment_documents[l].investment_id
                /\ investment_documents[k].document_id
                      = investment_documents[l].document_id ) => k = l

(***************************************************************************)
(* emit in the worker thread (run_in_executor) while progress_stream       *)
(* subscribes and unsubscribes in the event-loop thread.  The threads      *)
(* interleave between iterations of emit's `for queue in self._listeners`: *)
(* the list iterator keeps a position and reads the list as it is at each  *)
(* step.  pipeline is the emitting thread: its event, its position k in    *)
(* the list, the listeners at the start of the emit and the queues         *)
(* subscribed or unsubscribed since.                                       *)
(***************************************************************************)
Emitter ==
    [ pc |-> "idle", event |-> ProgressEvent("", 0), k |-> 0,
      before |-> {}, changed |-> {}, finished |-> <<>> ]

InitThreads ==
    /\ investments = <<>>
    /\ field_values = <<>>
    /\ investment_documents = <<>>
    /\ returned = [op |-> "none"]
    /\ sessions = [s \in 1..NumSessions |-> Idle]
    /\ documents = [d \in DocIds |-> Document]
    /\ emails = [e \in EmailIds |-> Email]
    /\ pipeline = Emitter
    /\ events = <<>>
    /\ listeners = <<>>
    /\ queues = <<>>
    /\ current_step = ""
    /\ log = <<>>
    /\ consumers = <<>>

ThreadsFrame ==
    UNCHANGED << investments, field_values, investment_documents, returned,
                 sessions, documents, emails >>

\* A queue joined or left the list while an emit is running.
Changed(queue) ==
    IF pipeline.pc = "notify"
    THEN [ pipeline EXCEPT !.changed = @ \cup {queue} ]
    ELSE pipeline

\* progress.subscribe() in progress_stream.
SubscribeThread ==
    /\ CallsLeft
    /\ SetTracker(subscribe(Tracker))
    /\ consumers' = Append(consumers, Consumer)
    /\ log' = Append(log, SubscribeCall(Len(queues) + 1))
    /\ pipeline' = Changed(Len(queues) + 1)
    /\ ThreadsFrame

\* progress.unsubscribe(queue) in the finally of progress_stream.
UnsubscribeThread ==
    \E k \in DOMAIN listeners :
        /\ CallsLeft
        /\ SetTracker(unsubscribe(Tracker, listeners[k]))
        /\ log' = Append(log, UnsubscribeCall(listeners[k]))
        /\ pipeline' = Changed(listeners[k])
        /\ UNCHANGED consumers
        /\ ThreadsFrame

\* emit up to the creation of the iterator over self._listeners.
EmitBegin ==
    \E step \in BusSteps :
        LET event == ProgressEvent(step, NumCalls(log, "emit") + 1)
        IN  /\ pipeline.pc = "idle"
            /\ NumCalls(log, "emit") < MaxEmits
            /\ events' = Append(events, event)
            /\ current_step' = event.step
            /\ log' = Append(log, EmitCall(event))
            /\ pipeline' = [ pipeline EXCEPT !.pc = "notify",
                   !.event = event, !.k = 1,
                   !.before = { listeners[i] : i \in DOMAIN listeners },
                   !.changed = {} ]
            /\ UNCHANGED << listeners, queues, consumers >>
            /\ ThreadsFrame

\* One iteration of the loop: the iterator yields the item at its position
\* in the list as it is now, or the loop ends.
EmitNext ==
    /\ pipeline.pc = "notify"
    /\ IF pipeline.k <= Len(listeners)
       THEN /\ queues' = [ queues EXCEPT ![listeners[pipeline.k]] =
                             put_nowait(@, pipeline.event) ]
            /\ pipeline' = [ pipeline EXCEPT !.k = @ + 1 ]
            /\ consumers' = MarkFull(consumers, queues')
       ELSE /\ pipeline' = [ pipeline EXCEPT !.pc = "idle",
                   !.finished = Append(@, [ event |-> pipeline.event,
                       stayed |-> pipeline.before \ pipeline.changed ]) ]
            /\ UNCHANGED << queues, consumers >>
    /\ UNCHANGED << events, listeners, current_step, log >>
    /\ ThreadsFrame

NextThreads == SubscribeThread \/ UnsubscribeThread \/ EmitBegin \/ EmitNext

SpecThreads == InitThreads /\ [][NextThreads]_vars

\* How many times the event is in the queue.
Copies(queue, event) ==
    Cardinality({ i \in DOMAIN queue : queue[i] = event })

\* C29: the bus tolerates concurrent use: when emit interleaves with the
\* subscribe or unsubscribe of other subscribers, every subscriber that
\* stays subscribed for the whole emit and whose queue has room receives
\* the event exactly once.
C29_ConcurrentEmitServesAll ==
    \A e \in DOMAIN pipeline.finished :
        \A q \in pipeline.finished[e].stayed :
            ~consumers[q].was_full =>
                Copies(queues[q], pipeline.finished[e].event) = 1

\* The step is a save by _save_investment.
SaveStep ==
    /\ returned'.op = "save"
    /\ Len(events') = Len(events) + 1

\* C30: every FieldValue written by the pipeline is attributed to its
\* originating document: a version with source_type 'document' written by
\* a save has source_id equal to the id of the document being processed,
\* and at every committed state that document is linked by an
\* InvestmentDocument row to the investment that owns the version.
C30_VersionsAttributed ==
    /\ [][ SaveStep =>
             \A i \in (Len(field_values) + 1)..Len(field_values') :
                 /\ field_values'[i].source_type = "document"
                 /\ field_values'[i].source_id
                       = events'[Len(events')].filename
                 /\ field_values'[i].investment_id = returned'.investment ]_vars
    /\ [](\A i \in DOMAIN field_values :
            field_values[i].source_type = "document" =>
                \E k \in DOMAIN investment_documents :
                    /\ investment_documents[k].investment_id
                          = field_values[i].investment_id
                    /\ investment_documents[k].document_id
                          = field_values[i].source_id)

\* One record holds versions of a field from two documents, each linked.
C30_Witness ==
    \E i, j \in DOMAIN field_values :
        /\ field_values[i].investment_id = field_values[j].investment_id
        /\ field_values[i].field_name = field_values[j].field_name
        /\ field_values[i].source_type = "document"
        /\ field_values[j].source_type = "document"
        /\ field_values[i].source_id # field_values[j].source_id
        /\ ~field_values[i].is_current
        /\ field_values[j].is_current
        /\ Len(investment_documents) = 2

(***************************************************************************)
(* Conflicts between concurrent writers.                                   *)
(***************************************************************************)
\* C31: a conflict caused by a concurrent write (the unique constraint on
\* the investment-document link, hit by two sessions that insert the same
\* link) is retried a bounded number of times before it surfaces: a save
\* that ends in the error was attempted more than once.
C31_ConflictRetried ==
    \A s \in Sessions :
        sessions[s].pc = "failed" => sessions[s].attempts > 1

(***************************************************************************)
(* Fields an extraction does not carry.                                    *)
(***************************************************************************)
\* The fields that are None in every extraction of the matching
\* specification, as _save_investment receives them.
MatchAbsent ==
    { f \in Fields :
        \A data \in MatchInputs :
            StoreLeaders(data.mapped_fields, data.leaders_raw)[f] = None }

\* The fields that were None in the extraction the step saved.
AbsentFields ==
    MatchAbsent
    \cup { f \in {"investment_name", "firm"} :
             events'[Len(events')][f] = None }

\* C32: an extraction in which a field is absent (None) leaves that field
\* untouched on the resolved record: no version of it is added, its current
\* FieldValue stays current and its column keeps its value; and a save
\* never touches the versions of other records.
C32_AbsentFieldUntouched ==
    [][ SaveStep =>
          LET id == returned'.investment
              added == (Len(field_values) + 1)..Len(field_values')
          IN  /\ \A i \in added :
                    /\ field_values'[i].investment_id = id
                    /\ field_values'[i].field_name \notin AbsentFields
              /\ \A i \in DOMAIN field_values :
                    ( \/ field_values[i].investment_id # id
                      \/ field_values[i].field_name \in AbsentFields )
                    => field_values'[i] = field_values[i]
              /\ \A f \in AbsentFields :
                    investments'[id][f]
                        = IF returned'.is_new THEN Investment(0)[f]
                          ELSE investments[id][f]
              /\ \A j \in DOMAIN investments :
                    j # id => investments'[j] = investments[j] ]_vars

\* A save without a name resolved to a named record: the name's version of
\* the first document is still current and the column still holds it.
C32_Witness ==
    /\ returned.op = "save"
    /\ ~returned.is_new
    /\ Len(events) = 2
    /\ events[2].investment_name = None
    /\ events[1].investment_name = AcmeFund
    /\ investments[returned.investment].investment_name = AcmeFund
    /\ \E i \in CurrentVersions(field_values, returned.investment,
                                "investment_name") :
          field_values[i].source_id = events[1].filename
    /\ events[1].filename # events[2].filename

(***************************************************************************)
(* unsubscribe.                                                            *)
(***************************************************************************)
\* The queues in self._listeners.
Listed(ls) == { ls[k] : k \in DOMAIN ls }

\* The step is unsubscribe(q).
UnsubscribeStep(q) ==
    /\ Len(log') = Len(log) + 1
    /\ log'[Len(log')] = UnsubscribeCall(q)

\* C33: after unsubscribe(q) has returned no later emit places an event in
\* q, and the events already in q stay readable; unsubscribe of a queue
\* that is not subscribed leaves the listener list unchanged.
C33_UnsubscribeFinal ==
    /\ [][ \A q \in {0} \cup DOMAIN queues :
             UnsubscribeStep(q) =>
                /\ q \notin Listed(listeners')
                /\ Listed(listeners') = Listed(listeners) \ {q}
                /\ q \notin Listed(listeners) => listeners' = listeners
                /\ queues' = queues ]_vars
    /\ [][ \A q \in DOMAIN queues :
             ( EmitStep /\ \E k \in DOMAIN log : log[k] = UnsubscribeCall(q) )
                => queues'[q] = queues[q] ]_vars

\* A queue was unsubscribed twice, an emit came after the first, and its
\* reader then took an event that was waiting in it.
C33_Witness ==
    \E q \in DOMAIN queues :
        /\ log[Len(log)] = GetCall(q)
        /\ \E i, j, k \in DOMAIN log :
              /\ i < j /\ i < k /\ j # k
              /\ log[i] = UnsubscribeCall(q)
              /\ IsEmit(log[j])
              /\ log[k] = UnsubscribeCall(q)
        /\ consumers[q].received # <<>>
        /\ q \notin Listed(listeners)

(***************************************************************************)
(* progress_stream and the run it starts.  Each stream subscribes, starts  *)
(* run_processing_with_progress in an executor thread and reads its queue  *)
(* with a timeout; the runs emit on the one global tracker.  pipeline      *)
(* holds, per stream, the position of the generator (pc), its queue, the   *)
(* steps its run has still to do (todo), the number of events the run has  *)
(* emitted (n), the event being sent to the client and the event that      *)
(* ended the loop.  An emit is taken as one step here.                     *)
(***************************************************************************)
NoEvent == ProgressEvent("", <<0, 0>>)

\* The emits of run_email_processing with k events of the pipeline, then
\* its last emit and the one of run_processing_with_progress.
RECURSIVE Processing(_)
Processing(k) == IF k = 0 THEN <<>> ELSE <<"processing">> \o Processing(k - 1)

RunSteps(k, ok) ==
    <<"clear", "start">> \o Processing(k)
    \o (IF ok THEN <<"status", "complete">> ELSE <<"error", "error">>)

NewStream(k, ok) ==
    [ pc |-> "new", queue |-> 0, todo |-> RunSteps(k, ok), n |-> 0,
      event |-> NoEvent, ended_by |-> NoEvent ]

Streams == DOMAIN pipeline.streams

\* Mutant: the timeout branch only sends the heartbeat.
OnTimeoutHeartbeat(done) == "get"

\* except asyncio.TimeoutError: break when the task is done.
OnTimeout(done) == IF done THEN "finally" ELSE "get"

\* Mutant: only 'complete' ends the loop.
AfterYieldCompleteOnly(event) ==
    IF event.step = "complete" THEN "finally" ELSE "get"

\* if event.step in ("complete", "error"): break
AfterYield(event) ==
    IF event.step \in {"complete", "error"} THEN "finally" ELSE "get"

StreamFrame ==
    UNCHANGED << investments, field_values, investment_documents, returned,
                 sessions, documents, emails, log >>

SetStream(s, stream) ==
    pipeline' = [ pipeline EXCEPT !.streams[s] = stream ]

\* queue = progress.subscribe(); task = loop.run_in_executor(...)
Open ==
    \E s \in Streams :
        /\ pipeline.streams[s].pc = "new"
        /\ SetTracker(subscribe(Tracker))
        /\ consumers' = Append(consumers, Consumer)
        /\ SetStream(s, [ pipeline.streams[s] EXCEPT
                            !.pc = "get", !.queue = Len(queues) + 1 ])
        /\ StreamFrame

\* progress.clear() of run_processing_with_progress.
RunClear(s) ==
    /\ pipeline.streams[s].pc # "new"
    /\ pipeline.streams[s].todo # <<>>
    /\ Head(pipeline.streams[s].todo) = "clear"
    /\ SetTracker(clear(Tracker))
    /\ SetStream(s, [ pipeline.streams[s] EXCEPT !.todo = Tail(@) ])
    /\ UNCHANGED consumers
    /\ StreamFrame

\* The next emit of the run.
RunEmit(s) ==
    /\ pipeline.streams[s].pc # "new"
    /\ pipeline.streams[s].todo # <<>>
    /\ Head(pipeline.streams[s].todo) # "clear"
    /\ LET event == ProgressEvent(Head(pipeline.streams[s].todo),
                                  << s, pipeline.streams[s].n + 1 >>)
           t == emit(Tracker, event)
       IN  /\ SetTracker(t)
           /\ consumers' = MarkFull(consumers, t.queues)
    /\ SetStream(s, [ pipeline.streams[s] EXCEPT !.todo = Tail(@),
                                                 !.n = @ + 1 ])
    /\ StreamFrame

\* await asyncio.wait_for(queue.get(), timeout=0.5) returns an event.
StreamGet(s) ==
    LET q == pipeline.streams[s].queue
    IN  /\ pipeline.streams[s].pc = "get"
        /\ queues[q] # <<>>
        /\ queues' = [ queues EXCEPT ![q] = Tail(@) ]
        /\ consumers' = [ consumers EXCEPT
               ![q].received = Append(@, Head(queues[q])) ]
        /\ SetStream(s, [ pipeline.streams[s] EXCEPT
                            !.pc = "yield", !.event = Head(queues[q]) ])
        /\ UNCHANGED << events, listeners, current_step >>
        /\ StreamFrame

\* yield event.to_sse() returns and the step of the event is tested.
StreamYield(s) ==
    LET stream == pipeline.streams[s]
        pc == AfterYield(stream.event)
    IN  /\ stream.pc = "yield"
        /\ SetStream(s, [ stream EXCEPT !.pc = pc, !.event = NoEvent,
                            !.ended_by = IF pc = "finally" THEN stream.event
                                         ELSE @ ])
        /\ UNCHANGED << events, listeners, queues, current_step, consumers >>
        /\ StreamFrame

\* The timeout of wait_for with nothing in the queue.
StreamTimeout(s) ==
    LET stream == pipeline.streams[s]
    IN  /\ stream.pc = "get"
        /\ queues[stream.queue] = <<>>
        /\ SetStream(s, [ stream EXCEPT !.pc = OnTimeout(stream.todo = <<>>) ])
        /\ UNCHANGED << events, listeners, queues, current_step, consumers >>
        /\ StreamFrame

\* The client goes away: the generator is closed at its await or yield.
StreamDisconnect(s) ==
    /\ pipeline.streams[s].pc \in {"get", "yield"}
    /\ SetStream(s, [ pipeline.streams[s] EXCEPT !.pc = "finally",
                                                 !.event = NoEvent ])
    /\ UNCHANGED << events, listeners, queues, current_step, consumers >>
    /\ StreamFrame

\* finally: progress.unsubscribe(queue)
StreamFinally(s) ==
    /\ pipeline.streams[s].pc = "finally"
    /\ SetTracker(unsubscribe(Tracker, pipeline.streams[s].queue))
    /\ SetStream(s, [ pipeline.streams[s] EXCEPT !.pc = "await" ])
    /\ UNCHANGED consumers
    /\ StreamFrame

\* await task
StreamAwait(s) ==
    /\ pipeline.streams[s].pc = "await"
    /\ pipeline.streams[s].todo = <<>>
    /\ SetStream(s, [ pipeline.streams[s] EXCEPT !.pc = "closed" ])
    /\ UNCHANGED << events, listeners, queues, current_step, consumers >>
    /\ StreamFrame

Clears == \E s \in Streams : RunClear(s)
Emits == \E s \in Streams : RunEmit(s)
Gets == \E s \in Streams : StreamGet(s)
Yields == \E s \in Streams : StreamYield(s)
Timeouts == \E s \in Streams : StreamTimeout(s)
Disconnects == \E s \in Streams : StreamDisconnect(s)
Finallys == \E s \in Streams : StreamFinally(s)
Awaits == \E s \in Streams : StreamAwait(s)

NextStream ==
    \/ Open
    \/ Clears
    \/ Emits
    \/ Gets
    \/ Yields
    \/ Timeouts
    \/ Disconnects
    \/ Finallys
    \/ Awaits

InitTracker ==
    /\ investments = <<>>
    /\ field_values = <<>>
    /\ investment_documents = <<>>
    /\ returned = [op |-> "none"]
    /\ sessions = [s \in 1..NumSessions |-> Idle]
    /\ documents = [d \in DocIds |-> Document]
    /\ emails = [e \in EmailIds |-> Email]
    /\ events = <<>>
    /\ listeners = <<>>
    /\ queues = <<>>
    /\ current_step = ""
    /\ log = <<>>
    /\ consumers = <<>>

\* One stream whose run emits nothing of the pipeline, or as many events as
\* a queue holds.
InitStream ==
    /\ InitTracker
    /\ \E k \in {0, maxsize}, ok \in BOOLEAN :
          pipeline = [ streams |-> << NewStream(k, ok) >> ]

\* The executor thread runs, the event loop runs the generator, and the
\* client keeps reading.
Fairness ==
    /\ WF_vars(Open)
    /\ WF_vars(Clears) /\ WF_vars(Emits)
    /\ WF_vars(Gets) /\ WF_vars(Yields) /\ WF_vars(Timeouts)
    /\ WF_vars(Finallys) /\ WF_vars(Awaits)

SpecStream == InitStream /\ [][NextStream]_vars /\ Fairness

\* The run of the stream has returned.
TaskDone(s) ==
    /\ pipeline.streams[s].pc # "new"
    /\ pipeline.streams[s].todo = <<>>

\* C34: under fairness a progress stream always ends once its processing
\* task has finished, by a 'complete' or 'error' event or, when that event
\* was dropped at a full queue, by draining the queue and finding the task
\* done on a timeout; and on every exit path its queue has been removed
\* from the listener list.
C34_StreamEnds ==
    /\ [](\A s \in Streams :
            pipeline.streams[s].pc \in {"await", "closed"} =>
                pipeline.streams[s].queue \notin Listed(listeners))
    /\ \A s \in {1} : TaskDone(s) ~> (pipeline.streams[s].pc = "closed")

\* The stream ended on the timeout: its queue had been full, the terminal
\* events were dropped and it never saw one.
C34_Witness ==
    /\ pipeline.streams[1].pc = "closed"
    /\ pipeline.streams[1].ended_by = NoEvent
    /\ consumers[1].was_full
    /\ Len(consumers[1].received) = maxsize
    /\ listeners = <<>>

(***************************************************************************)
(* Two streams.  get_progress_tracker returns the one tracker of the       *)
(* process, so both streams subscribe to it and both runs emit on it.      *)
(***************************************************************************)
InitStreams ==
    /\ InitTracker
    /\ \E ok1 \in BOOLEAN, ok2 \in BOOLEAN :
          pipeline = [ streams |-> << NewStream(0, ok1), NewStream(0, ok2) >> ]

SpecStreams == InitStreams /\ [][NextStream]_vars

\* The step in which the loop of stream s leaves on an event.
EndsOnEvent(s) ==
    /\ pipeline.streams[s].pc = "yield"
    /\ pipeline'.streams[s].pc = "finally"
    /\ pipeline'.streams[s].ended_by # NoEvent

\* C35: with two streams on the shared bus, a stream stops delivering
\* events only on a 'complete' or 'error' event of its own run, or when its
\* own run is done; an event of the other run never ends it while its own
\* run is still emitting.
C35_OwnRunEndsStream ==
    [][\A s \in Streams :
          EndsOnEvent(s) =>
              \/ pipeline'.streams[s].ended_by.timestamp[1] = s
              \/ TaskDone(s)]_vars

(***************************************************************************)
(* The status of an email after _process_user_emails has handled it.       *)
(***************************************************************************)
TerminalEmailStatuses == {"skipped", "failed", "completed"}

MaxFetches == 2

Fetchers == {"scheduler", "trigger"}

\* The PDF attachments of the messages of the mailbox.
GmailMessages ==
    << << "deck.pdf", "terms.pdf" >>, << >>, << "memo.pdf" >> >>

\* gmail.list_messages
ListMessages == << 1, 2, 3 >>

Fetcher ==
    [ pc |-> "idle", fetches |-> 0, messages |-> <<>>, message |-> 0,
      email |-> <<>>, inserts |-> 0, returned |-> [ value |-> "none" ] ]

InitFetch ==
    /\ investments = <<>>
    /\ field_values = <<>>
    /\ investment_documents = <<>>
    /\ returned = [op |-> "none"]
    /\ sessions = [s \in 1..NumSessions |-> Idle]
    /\ documents = <<>>
    /\ emails = <<>>
    /\ events = <<>>
    /\ listeners = <<>>
    /\ queues = <<>>
    /\ current_step = ""
    /\ log = <<>>
    /\ consumers = <<>>
    /\ pipeline = [ fetchers |-> [ f \in Fetchers |-> Fetcher ] ]

FetchFrame ==
    UNCHANGED << investments, field_values, investment_documents, returned,
                 sessions, events, listeners, queues, current_step, log,
                 consumers >>

SetFetcher(f, fetcher) ==
    pipeline' = [ pipeline EXCEPT !.fetchers[f] = fetcher ]

\* The rows of emails the session of f reads: the committed ones and its own.
VisibleEmails(f) ==
    { k \in DOMAIN emails : emails[k].committed \/ emails[k].session = f }

\* Mutant: no message counts as processed.
is_message_processed_never(rows, gmail_message_id) == FALSE

\* query(Email).filter(Email.gmail_message_id == ...).first() is not None
is_message_processed(rows, gmail_message_id) ==
    \E k \in rows : emails[k].gmail_message_id = gmail_message_id

\* Email(gmail_message_id=message_id, ..., status=PROCESSING) after flush.
EmailRow(id, message_id, f) ==
    [ id |-> id, gmail_message_id |-> message_id, status |-> "processing",
      session |-> f, committed |-> FALSE ]

\* Document(email_id=email.id, filename=..., processing_status=PENDING)
DocumentRow(email_id, filename) ==
    [ email_id |-> email_id, filename |-> filename,
      processing_status |-> "pending" ]

\* The rollback of the session of f.
Rollback(rows, f) ==
    SelectSeq(rows, LAMBDA row : row.committed \/ row.session # f)

\* fetch_new_emails lists the messages.
StartFetch(f) ==
    /\ pipeline.fetchers[f].pc = "idle"
    /\ pipeline.fetchers[f].fetches < MaxFetches
    /\ SetFetcher(f, [ pipeline.fetchers[f] EXCEPT
           !.pc = "next", !.fetches = @ + 1, !.messages = ListMessages,
           !.returned = [ value |-> "none" ] ])
    /\ UNCHANGED << emails, documents >>
    /\ FetchFrame

\* fetch_new_emails returns after the last message.
EndFetch(f) ==
    /\ pipeline.fetchers[f].pc = "next"
    /\ pipeline.fetchers[f].messages = <<>>
    /\ SetFetcher(f, [ pipeline.fetchers[f] EXCEPT
           !.pc = "idle", !.returned = [ value |-> "none" ] ])
    /\ UNCHANGED << emails, documents >>
    /\ FetchFrame

\* process_message up to the creation of the Email: None when the message
\* is processed already or has no PDF.
CheckMessage(f) ==
    LET fetcher == pipeline.fetchers[f]
        message_id == Head(fetcher.messages)
    IN  /\ fetcher.pc = "next"
        /\ fetcher.messages # <<>>
        /\ IF \/ is_message_processed(VisibleEmails(f), message_id)
              \/ GmailMessages[message_id] = <<>>
           THEN SetFetcher(f, [ fetcher EXCEPT
                    !.messages = Tail(@), !.message = message_id,
                    !.returned = [ value |-> "None" ] ])
           ELSE SetFetcher(f, [ fetcher EXCEPT
                    !.pc = "flush", !.messages = Tail(@),
                    !.message = message_id,
                    !.returned = [ value |-> "none" ] ])
        /\ UNCHANGED << emails, documents >>
        /\ FetchFrame

\* db.add(email); db.flush(): the INSERT waits for a session that holds the
\* same gmail_message_id uncommitted and raises IntegrityError when the id
\* is committed (unique=True); the exception leaves fetch_new_emails.
FlushEmail(f) ==
    LET fetcher == pipeline.fetchers[f]
        same == { k \in DOMAIN emails :
                    emails[k].gmail_message_id = fetcher.message }
        id == << f, fetcher.inserts + 1 >>
    IN  /\ fetcher.pc = "flush"
        /\ \A k \in same : emails[k].committed
        /\ IF same # {}
           THEN /\ emails' = Rollback(emails, f)
                /\ SetFetcher(f, [ fetcher EXCEPT
                       !.pc = "idle", !.messages = <<>>,
                       !.returned = [ value |-> "IntegrityError" ] ])
           ELSE /\ emails' = Append(emails,
                                    EmailRow(id, fetcher.message, f))
                /\ SetFetcher(f, [ fetcher EXCEPT
                       !.pc = "attachments", !.email = id,
                       !.inserts = @ + 1 ])
        /\ UNCHANGED documents
        /\ FetchFrame

\* The documents of the attachments are added and db.commit() writes them.
CommitEmail(f) ==
    LET fetcher == pipeline.fetchers[f]
        attachments == GmailMessages[fetcher.message]
    IN  /\ fetcher.pc = "attachments"
        /\ documents' = documents \o
              [ k \in DOMAIN attachments |->
                  DocumentRow(fetcher.email, attachments[k]) ]
        /\ emails' = [ k \in DOMAIN emails |->
              IF emails[k].session = f
              THEN [ emails[k] EXCEPT !.committed = TRUE ]
              ELSE emails[k] ]
        /\ SetFetcher(f, [ fetcher EXCEPT
               !.pc = "next", !.returned = [ value |-> "Email" ] ])
        /\ FetchFrame

\* gmail.get_attachment or the write of the file raises: the exception
\* leaves fetch_new_emails and the session is rolled back.
AttachmentFails(f) ==
    /\ pipeline.fetchers[f].pc = "attachments"
    /\ emails' = Rollback(emails, f)
    /\ SetFetcher(f, [ pipeline.fetchers[f] EXCEPT
           !.pc = "idle", !.messages = <<>>,
           !.returned = [ value |-> "raised" ] ])
    /\ UNCHANGED documents
    /\ FetchFrame

StartFetches == \E f \in Fetchers : StartFetch(f)
EndFetches == \E f \in Fetchers : EndFetch(f)
CheckMessages == \E f \in Fetchers : CheckMessage(f)
FlushEmails == \E f \in Fetchers : FlushEmail(f)
CommitEmails == \E f \in Fetchers : CommitEmail(f)
AttachmentFailures == \E f \in Fetchers : AttachmentFails(f)

NextFetch ==
    \/ StartFetches
    \/ EndFetches
    \/ CheckMessages
    \/ FlushEmails
    \/ CommitEmails
    \/ AttachmentFailures

SpecFetch == InitFetch /\ [][NextFetch]_vars

\* The rows of emails with the Gmail message id.
EmailsOf(rows, gmail_message_id) ==
    { k \in DOMAIN rows : rows[k].gmail_message_id = gmail_message_id }

\* The rows of documents of the email.
DocumentsOf(email_id) ==
    { k \in DOMAIN documents : documents[k].email_id = email_id }

\* The step is process_message of f, called with a message whose Email row
\* exists.
CalledOnProcessed(f) ==
    /\ pipeline.fetchers[f].pc = "next"
    /\ pipeline.fetchers[f].messages # <<>>
    /\ pipeline'.fetchers[f].messages = Tail(pipeline.fetchers[f].messages)
    /\ \E k \in EmailsOf(emails, Head(pipeline.fetchers[f].messages)) :
           emails[k].committed

\* C37: ingestion is idempotent per message: process_message called with a
\* Gmail message id whose Email row exists returns None and creates no
\* Email or Document; after any sequence of fetches, also overlapping ones,
\* there is at most one Email per gmail_message_id and its documents exist
\* once.
C37_IngestionIdempotent ==
    /\ [](\A m \in DOMAIN GmailMessages :
            /\ Cardinality(EmailsOf(emails, m)) <= 1
            /\ \A k \in EmailsOf(emails, m) :
                 Cardinality(DocumentsOf(emails[k].id))
                    = IF emails[k].committed THEN Len(GmailMessages[m])
                      ELSE 0)
    /\ [][\A f \in Fetchers :
            CalledOnProcessed(f) =>
                /\ pipeline'.fetchers[f].returned = [ value |-> "None" ]
                /\ UNCHANGED << emails, documents >>]_vars

\* Both fetches took message 1 as new; one of them committed its Email with
\* the two documents and the other was refused by the unique index, and a
\* later fetch has been answered None for it.
C37_Witness ==
    /\ Cardinality(EmailsOf(emails, 1)) = 1
    /\ \E k \in EmailsOf(emails, 1) :
          emails[k].committed /\ Cardinality(DocumentsOf(emails[k].id)) = 2
    /\ pipeline.fetchers["trigger"].returned = [ value |-> "IntegrityError" ]
    /\ pipeline.fetchers["scheduler"].fetches = MaxFetches
    /\ pipeline.fetchers["scheduler"].message = 1
    /\ pipeline.fetchers["scheduler"].returned = [ value |-> "None" ]

(***************************************************************************)
(* Archiving: PUT /investments/{id} with is_archived = true, between the   *)
(* saves of extractions.                                                   *)
(***************************************************************************)
ArchiveUpdate == << << "is_archived", Bool(TRUE) >> >>

Archive ==
    \E investment_id \in 1..MaxMatchSaves, current_user \in Users :
        /\ UpdateInvestment(investment_id, ArchiveUpdate, current_user)
        /\ UNCHANGED pipeline_vars
        /\ Broadcast

NextArchive == SaveMatch \/ Archive

SpecArchive == Init /\ [][NextArchive]_vars

\* The step is an accepted update.
ArchiveStep ==
    /\ returned'.op = "update"
    /\ returned'.status = 200

\* The owner's records that match the extraction saved by the step exactly.
SavedMatches ==
    LET saved == events'[Len(events')]
    IN  IF Truthy(saved.investment_name) /\ Truthy(saved.firm)
        THEN ExactMatches(investments, saved.investment_name, saved.firm,
                          DocUser(saved.filename))
        ELSE {}

\* C38: archiving is a soft delete that does not remove a record from
\* matching: setting is_archived keeps the Investment, its FieldValues and
\* its links, and a later extraction whose name and firm match an archived
\* record resolves to it, writes new versions to it and leaves is_archived
\* true instead of creating a new record.
C38_ArchivedStillMatches ==
    /\ [][ ArchiveStep =>
             /\ investments' =
                   [ investments EXCEPT
                       ![returned'.investment].is_archived = Bool(TRUE) ]
             /\ UNCHANGED << field_values, investment_documents >> ]_vars
    /\ [][ ( /\ SaveStep
             /\ SavedMatches # {}
             /\ \A i \in SavedMatches :
                   investments[i].is_archived = Bool(TRUE) )
           => LET id == returned'.investment
              IN  /\ ~returned'.is_new
                  /\ id \in SavedMatches
                  /\ Len(investments') = Len(investments)
                  /\ investments'[id].is_archived = Bool(TRUE)
                  /\ Len(field_values') > Len(field_values)
                  /\ \A i \in (Len(field_values) + 1)..Len(field_values') :
                        field_values'[i].investment_id = id ]_vars

\* A record was saved, archived and matched again by a second document:
\* it is still archived and has versions from both documents.
C38_Witness ==
    /\ returned.op = "save"
    /\ ~returned.is_new
    /\ Len(investments) = 1
    /\ investments[1].is_archived = Bool(TRUE)
    /\ Len(events) = 2
    /\ events[1].filename # events[2].filename
    /\ \A k \in {1, 2} :
          \E i \in DOMAIN field_values :
              /\ field_values[i].investment_id = 1
              /\ field_values[i].source_id = events[k].filename
    /\ Len(investment_documents) = 2

====
